---- MODULE Spec2Model ----
(***************************************************************************)
(* Tool-chaining core of agent.mjs: TemplateProcessor (variable scanning,  *)
(* dependency graph, template resolution) and executeTools (the per-batch  *)
(* orchestration loop with its graph-ordered and fallback branches).       *)
(*                                                                         *)
(* JavaScript strings that are scanned by the code are sequences of        *)
(* one-character strings.  Object keys, call ids, tool names and error     *)
(* messages, which the code only compares or concatenates, are strings.    *)
(* A JavaScript value is a record [t, s, o]: t is the typeof-like tag, s   *)
(* the text of a string/number/boolean, o the key/value pairs of an object *)
(* or array in insertion order.                                            *)
(***************************************************************************)
EXTENDS Integers, Sequences, FiniteSets, TLC

(***************************************************************************)
(* Bounds of the model                                                     *)
(***************************************************************************)
\* largest number of tool calls in one batch
MaxBatch == 3

(***************************************************************************)
(* JavaScript values                                                       *)
(***************************************************************************)
Undef == [t |-> "undefined", s |-> <<>>, o |-> <<>>]

Null == [t |-> "null", s |-> <<>>, o |-> <<>>]

Num(cs) == [t |-> "number", s |-> cs, o |-> <<>>]

StrV(cs) == [t |-> "string", s |-> cs, o |-> <<>>]

Bool(b) == [t |-> "boolean", s |-> IF b THEN <<"t", "r", "u", "e">> ELSE <<"f", "a", "l", "s", "e">>, o |-> <<>>]

Obj(pairs) == [t |-> "object", s |-> <<>>, o |-> pairs]

Arr(pairs) == [t |-> "array", s |-> <<>>, o |-> pairs]

\* a thrown exception travelling through an expression; s is unused, m is
\* carried in the o field as the single pair <<message, Undef>>
Thrown(msg) == [t |-> "throw", s |-> <<>>, o |-> << <<msg, Undef>> >>]

IsThrown(v) == v.t = "throw"

ThrownMessage(v) == v.o[1][1]

\* JavaScript truthiness (the `!x` and `x || d` tests of the code)
Truthy(v) ==
  CASE v.t \in {"undefined", "null"} -> FALSE
    [] v.t = "string" -> v.s # <<>>
    [] v.t = "number" -> v.s # <<"0">>
    [] v.t = "boolean" -> v.s = <<"t", "r", "u", "e">>
    [] OTHER -> TRUE

RECURSIVE Str(_)
\* the string made of the characters cs
Str(cs) == IF cs = <<>> THEN "" ELSE Head(cs) \o Str(Tail(cs))

Digits == <<"0", "1", "2", "3", "4", "5", "6", "7", "8", "9">>

RECURSIVE HasKey(_, _)
HasKey(pairs, key) ==
  IF pairs = <<>> THEN FALSE
  ELSE IF pairs[Len(pairs)][1] = key THEN TRUE
  ELSE HasKey(SubSeq(pairs, 1, Len(pairs) - 1), key)

RECURSIVE Lookup(_, _)
\* the last pair written for key wins
Lookup(pairs, key) ==
  IF pairs = <<>> THEN Undef
  ELSE IF pairs[Len(pairs)][1] = key THEN pairs[Len(pairs)][2]
  ELSE Lookup(SubSeq(pairs, 1, Len(pairs) - 1), key)

\* current[part] of an object or array (own properties only)
Get(v, key) ==
  IF v.t = "array" /\ key = "length" /\ Len(v.o) < 10 THEN Num(<<Digits[Len(v.o) + 1]>>)
  ELSE Lookup(v.o, key)

\* obj[key] = val: an existing key keeps its position
Put(pairs, key, val) ==
  IF HasKey(pairs, key)
  THEN [i \in 1..Len(pairs) |-> IF pairs[i][1] = key THEN <<key, val>> ELSE pairs[i]]
  ELSE Append(pairs, <<key, val>>)

Keys(pairs) == {pairs[i][1] : i \in 1..Len(pairs)}

(***************************************************************************)
(* String helpers: String.prototype.trim and split('.')                    *)
(***************************************************************************)
IsWS(c) == c \in {" "}

RECURSIVE TrimLeft(_)
TrimLeft(cs) == IF cs # <<>> /\ IsWS(Head(cs)) THEN TrimLeft(Tail(cs)) ELSE cs

RECURSIVE TrimRight(_)
TrimRight(cs) ==
  IF cs # <<>> /\ IsWS(cs[Len(cs)]) THEN TrimRight(SubSeq(cs, 1, Len(cs) - 1)) ELSE cs

Trim(cs) == TrimRight(TrimLeft(cs))

RECURSIVE SplitDot(_, _)
\* cs.split('.') with cur the part being collected
SplitDot(cs, cur) ==
  IF cs = <<>> THEN <<cur>>
  ELSE IF Head(cs) = "." THEN <<cur>> \o SplitDot(Tail(cs), <<>>)
  ELSE SplitDot(Tail(cs), Append(cur, Head(cs)))

Split(cs) == SplitDot(cs, <<>>)

\* variable.split('.')[0] as a key
FirstSegment(cs) == Str(Split(cs)[1])

(***************************************************************************)
(* The marker pattern \{\{\s*([^}]+)\s*\}\}                                *)
(***************************************************************************)
RECURSIVE FirstClose(_, _)
\* index of the first "}" at or after i, or 0
FirstClose(cs, i) ==
  IF i > Len(cs) THEN 0
  ELSE IF cs[i] = "}" THEN i
  ELSE FirstClose(cs, i + 1)

\* the pattern matches with its "{{" at index i: the run of non-brace
\* characters after it is not empty and is followed by "}}"
MatchAt(cs, i) ==
  /\ i + 1 <= Len(cs)
  /\ cs[i] = "{"
  /\ cs[i + 1] = "{"
  /\ LET j == FirstClose(cs, i + 2)
     IN /\ j >= i + 3
        /\ j + 1 <= Len(cs)
        /\ cs[j + 1] = "}"

\* a capture that keeps the spaces around the path
CaptureAtUntrimmed(cs, i) == SubSeq(cs, i + 2, FirstClose(cs, i + 2) - 1)

\* match[1].trim() of the match at i
CaptureAt(cs, i) == Trim(SubSeq(cs, i + 2, FirstClose(cs, i + 2) - 1))

\* index after the match at i (the regex's lastIndex)
EndAt(cs, i) == FirstClose(cs, i + 2) + 2

AddVar(vars, v) == IF \E k \in 1..Len(vars) : vars[k] = v THEN vars ELSE Append(vars, v)

RECURSIVE ScanString(_, _, _)
\* the exec loop of extractVariables over one string, from index i
ScanString(cs, i, vars) ==
  IF i > Len(cs) THEN vars
  ELSE IF MatchAt(cs, i) THEN ScanString(cs, EndAt(cs, i), AddVar(vars, CaptureAt(cs, i)))
  ELSE ScanString(cs, i + 1, vars)

RECURSIVE ExtractInto(_, _)
\* processValue of extractVariables: vars is the Set in insertion order
ExtractInto(value, vars) ==
  IF value.t = "string" THEN ScanString(value.s, 1, vars)
  ELSE IF value.t \in {"object", "array"} THEN
    IF value.o = <<>> THEN vars
    ELSE ExtractInto([value EXCEPT !.o = Tail(value.o)], ExtractInto(value.o[1][2], vars))
  ELSE vars

extractVariables(input) == ExtractInto(input, <<>>)

(***************************************************************************)
(* TemplateProcessor.buildDependencyGraph                                  *)
(* A tool call is [id, name, arguments]; name is function.name and         *)
(* arguments is function.arguments.                                        *)
(***************************************************************************)
ToolIds(tools) == {tools[i].id : i \in 1..Len(tools)}

RECURSIVE FilterDeps(_, _)
\* Array.from(variables).filter(v => toolIds.has(v.split('.')[0]))
FilterDeps(vars, ids) ==
  IF vars = <<>> THEN <<>>
  ELSE IF FirstSegment(Head(vars)) \in ids THEN <<Head(vars)>> \o FilterDeps(Tail(vars), ids)
  ELSE FilterDeps(Tail(vars), ids)

\* the dependencies Map: a later tool with the same id overwrites an earlier one
Dependencies(tools) ==
  [id \in ToolIds(tools) |->
    LET last == CHOOSE i \in 1..Len(tools) :
                  /\ tools[i].id = id
                  /\ \A k \in (i + 1)..Len(tools) : tools[k].id # id
    IN FilterDeps(extractVariables(tools[last].arguments), ToolIds(tools))]

CycleMessage(toolId) == "Circular dependency detected involving tool: " \o toolId

RECURSIVE Visit(_, _, _, _)
RECURSIVE VisitDeps(_, _, _, _)
\* a visit that pushes the id before it recurses into the dependencies
VisitPreOrder(toolId, st, dependencies, ids) ==
  IF st.threw THEN st
  ELSE IF toolId \in st.temp THEN [st EXCEPT !.threw = TRUE, !.msg = CycleMessage(toolId)]
  ELSE IF toolId \in st.visited THEN st
  ELSE LET st1 == [st EXCEPT !.temp = @ \cup {toolId}, !.order = Append(@, toolId)]
           st2 == VisitDeps(dependencies[toolId], st1, dependencies, ids)
       IN IF st2.threw THEN st2
          ELSE [st2 EXCEPT !.temp = @ \ {toolId}, !.visited = @ \cup {toolId}]

\* visit(toolId); st = [visited, temp, order, threw, msg]
Visit(toolId, st, dependencies, ids) ==
  IF st.threw THEN st
  ELSE IF toolId \in st.temp THEN [st EXCEPT !.threw = TRUE, !.msg = CycleMessage(toolId)]
  ELSE IF toolId \in st.visited THEN st
  ELSE LET st1 == [st EXCEPT !.temp = @ \cup {toolId}]
           st2 == VisitDeps(dependencies[toolId], st1, dependencies, ids)
       IN IF st2.threw THEN st2
          ELSE [st2 EXCEPT !.temp = @ \ {toolId},
                           !.visited = @ \cup {toolId},
                           !.order = Append(@, toolId)]

\* deps.forEach(dep => ...) inside visit
VisitDeps(deps, st, dependencies, ids) ==
  IF deps = <<>> \/ st.threw THEN st
  ELSE LET depToolId == FirstSegment(Head(deps))
           st1 == IF depToolId \in ids THEN Visit(depToolId, st, dependencies, ids) ELSE st
       IN VisitDeps(Tail(deps), st1, dependencies, ids)

RECURSIVE VisitAllReversed(_, _, _, _)
\* a loop that visits the calls from the last one of the batch to the first
VisitAllReversed(tools, st, dependencies, ids) ==
  IF tools = <<>> \/ st.threw THEN st
  ELSE VisitAllReversed(SubSeq(tools, 1, Len(tools) - 1),
                        Visit(tools[Len(tools)].id, st, dependencies, ids), dependencies, ids)

RECURSIVE VisitAll(_, _, _, _)
\* tools.forEach(tool => visit(tool.id))
VisitAll(tools, st, dependencies, ids) ==
  IF tools = <<>> \/ st.threw THEN st
  ELSE VisitAll(Tail(tools), Visit(Head(tools).id, st, dependencies, ids), dependencies, ids)

\* returns [threw, msg, order]; threw models the Error raised by visit
buildDependencyGraph(tools) ==
  LET st == VisitAll(tools,
                     [visited |-> {}, temp |-> {}, order |-> <<>>, threw |-> FALSE, msg |-> ""],
                     Dependencies(tools), ToolIds(tools))
  IN [threw |-> st.threw, msg |-> st.msg, order |-> st.order]

(***************************************************************************)
(* TemplateProcessor.resolveVariable and processArguments                  *)
(***************************************************************************)
\* a function object, such as the ones Object.prototype holds
Func == [t |-> "function", s |-> <<>>, o |-> <<>>]

\* names every object and array inherits from Object.prototype
InheritedKeys == {"constructor", "toString", "valueOf", "hasOwnProperty"}

\* current[part]: an own property, or else an inherited one
Member(current, part) ==
  IF ~HasKey(current.o, part) /\ part \in InheritedKeys THEN Func
  ELSE Get(current, part)

RECURSIVE Descend(_, _)
\* the for loop of resolveVariable
Descend(parts, current) ==
  IF parts = <<>> THEN current
  ELSE IF current.t \notin {"object", "array"} THEN Undef
  ELSE Descend(Tail(parts), Member(current, Str(Head(parts))))

resolveVariable(varPath, context) == Descend(Split(varPath), context)

\* value.match(/^\{\{\s*([^}]+)\s*\}\}$/)
PureTemplateMatch(cs) ==
  /\ Len(cs) >= 5
  /\ cs[1] = "{" /\ cs[2] = "{"
  /\ cs[Len(cs) - 1] = "}" /\ cs[Len(cs)] = "}"
  /\ \A k \in 3..(Len(cs) - 2) : cs[k] # "}"

PureTemplatePath(cs) == Trim(SubSeq(cs, 3, Len(cs) - 2))

(***************************************************************************)
(* templateEnv.renderString (nunjucks, autoescape off), for templates made *)
(* of literal text and {{ dotted.path }} outputs                           *)
(***************************************************************************)
IdentChars == {"A", "B", "C", "D", "E", "Z", "p", "a", "t", "h", "c", "o", "u", "n", "x", "_"}

IsIdent(cs) == cs # <<>> /\ \A k \in 1..Len(cs) : cs[k] \in IdentChars

IsPathExpr(cs) == LET parts == Split(cs) IN \A k \in 1..Len(parts) : IsIdent(parts[k])

RECURSIVE FirstVarEnd(_, _)
\* index of the first "}}" at or after i, or 0
FirstVarEnd(cs, i) ==
  IF i + 1 > Len(cs) THEN 0
  ELSE IF cs[i] = "}" /\ cs[i + 1] = "}" THEN i
  ELSE FirstVarEnd(cs, i + 1)

\* nunjucks memberLookup: undefined-safe property access
MemberLookup(v, key) ==
  IF v.t \in {"undefined", "null"} THEN Undef
  ELSE IF v.t = "string" /\ key = "length" /\ Len(v.s) < 10 THEN Num(<<Digits[Len(v.s) + 1]>>)
  ELSE Get(v, key)

RECURSIVE LookupPath(_, _)
LookupPath(parts, current) ==
  IF parts = <<>> THEN current
  ELSE LookupPath(Tail(parts), MemberLookup(current, Str(Head(parts))))

RECURSIVE ToText(_)
RECURSIVE JoinText(_)
\* String(val) as the output of a variable block; undefined and null give ""
ToText(v) ==
  CASE v.t \in {"undefined", "null"} -> <<>>
    [] v.t \in {"string", "number", "boolean"} -> v.s
    [] v.t = "array" -> JoinText(v.o)
    [] OTHER -> <<"[", "o", "b", "j", "e", "c", "t", " ", "O", "b", "j", "e", "c", "t", "]">>

JoinText(pairs) ==
  IF pairs = <<>> THEN <<>>
  ELSE IF Len(pairs) = 1 THEN ToText(pairs[1][2])
  ELSE ToText(pairs[1][2]) \o <<",">> \o JoinText(Tail(pairs))

RECURSIVE Render(_, _, _, _)
\* literal text is copied; "{{" opens a variable block that must close
Render(cs, i, out, context) ==
  IF i > Len(cs) THEN StrV(out)
  ELSE IF i + 1 <= Len(cs) /\ cs[i] = "{" /\ cs[i + 1] = "{" THEN
    LET e == FirstVarEnd(cs, i + 2)
        expr == Trim(SubSeq(cs, i + 2, e - 1))
    IN IF e = 0 THEN Thrown("expected variable end")
       ELSE IF ~IsPathExpr(expr) THEN Thrown("unexpected token")
       ELSE Render(cs, e + 2, out \o ToText(LookupPath(Split(expr), context)), context)
  ELSE Render(cs, i + 1, Append(out, cs[i]), context)

\* a rendering that substitutes the first marker and copies the rest
renderStringFirstOnly(cs, context) ==
  LET e == FirstVarEnd(cs, 1)
      first == Render(SubSeq(cs, 1, e + 1), 1, <<>>, context)
  IN IF e = 0 THEN StrV(cs)
     ELSE IF IsThrown(first) THEN first
     ELSE StrV(first.s \o SubSeq(cs, e + 2, Len(cs)))

renderString(cs, context) == Render(cs, 1, <<>>, context)

RECURSIVE ProcessValue(_, _)
RECURSIVE ProcessEntries(_, _, _)
\* a processValue without the whole-value case: every string is rendered
ProcessValueInlineOnly(value, context) ==
  IF value.t = "string" THEN renderString(value.s, context)
  ELSE IF value.t \in {"array", "object"} THEN ProcessEntries(value, <<>>, context)
  ELSE value

\* processValue of processArguments; a throw of the template engine propagates
ProcessValue(value, context) ==
  IF value.t = "string" THEN
    IF PureTemplateMatch(value.s)
    THEN LET result == resolveVariable(PureTemplatePath(value.s), context)
         IN IF result.t # "undefined" THEN result ELSE value
    ELSE renderString(value.s, context)
  ELSE IF value.t \in {"array", "object"} THEN ProcessEntries(value, <<>>, context)
  ELSE value

\* value.map(processValue) and Object.entries(value).forEach(...)
ProcessEntries(value, done, context) ==
  IF Len(done) = Len(value.o) THEN [value EXCEPT !.o = done]
  ELSE LET e == value.o[Len(done) + 1]
           v == ProcessValue(e[2], context)
       IN IF IsThrown(v) THEN v
          ELSE ProcessEntries(value, Append(done, <<e[1], v>>), context)

processArguments(args, context) ==
  IF ~Truthy(args) \/ args.t \notin {"object", "array"} THEN args
  ELSE ProcessValue(args, context)

(***************************************************************************)
(* executeTools: the required-argument checks of the switch                *)
(***************************************************************************)
KnownTools ==
  {"execute_shell_command", "read_file", "write_file", "append_to_file", "list_directory",
   "create_directory", "copy_files", "move_files", "delete_file", "get_file_info",
   "search_files", "find_and_replace", "ripgrep_search", "todo_read", "todo_write",
   "browser_navigate", "browser_interact", "http_fetch"}

\* a switch whose write cases check content but not file_path
ValidationErrorContentOnly(toolName, args) ==
  IF toolName \in {"write_file", "append_to_file"} /\ Get(args, "content").t = "undefined"
  THEN "file_path and content are required"
  ELSE IF toolName = "read_file" /\ ~Truthy(Get(args, "file_path"))
  THEN "No file_path provided"
  ELSE ""

\* the message of the failed presence check of case toolName, or "" when the
\* check passes; args?.x is Get(args, x)
ValidationError(toolName, args) ==
  LET Missing(k) == ~Truthy(Get(args, k))
      Undefined(k) == Get(args, k).t = "undefined"
      NotArray(k) == Get(args, k).t # "array"
  IN CASE toolName = "execute_shell_command" ->
            IF Missing("command") THEN "No command provided" ELSE ""
       [] toolName = "read_file" ->
            IF Missing("file_path") THEN "No file_path provided" ELSE ""
       [] toolName \in {"write_file", "append_to_file"} ->
            IF Missing("file_path") \/ Undefined("content")
            THEN "file_path and content are required" ELSE ""
       [] toolName \in {"list_directory", "create_directory"} ->
            IF Missing("directory_path") THEN "directory_path is required" ELSE ""
       [] toolName \in {"copy_files", "move_files"} ->
            IF Missing("source") \/ Missing("destination")
            THEN "source and destination are required" ELSE ""
       [] toolName \in {"delete_file", "get_file_info"} ->
            IF Missing("file_path") THEN "file_path is required" ELSE ""
       [] toolName = "search_files" ->
            IF Missing("search_path") \/ Missing("pattern")
            THEN "search_path and pattern are required" ELSE ""
       [] toolName = "find_and_replace" ->
            IF Missing("search_path") \/ Missing("search_text") \/ Undefined("replace_text")
            THEN "search_path, search_text, and replace_text are required" ELSE ""
       [] toolName = "ripgrep_search" ->
            IF Missing("pattern") THEN "pattern is required" ELSE ""
       [] toolName = "todo_write" ->
            IF Missing("todos") \/ NotArray("todos") THEN "todos array is required" ELSE ""
       [] toolName \in {"browser_navigate", "http_fetch"} ->
            IF Missing("url") THEN "url is required" ELSE ""
       [] toolName = "browser_interact" ->
            IF Missing("actions") \/ NotArray("actions") THEN "actions array is required" ELSE ""
       [] OTHER -> ""

(***************************************************************************)
(* getToolLogMessage: the summary line, or the TypeError it raises when    *)
(* path.basename gets a non-string or new URL gets an invalid URL          *)
(***************************************************************************)
SchemeChars == {"h", "t", "p", "a", "c", "o", "u", "n", "x"}

\* new URL(text) accepts text that starts with a scheme and a colon
IsValidURL(cs) ==
  \E k \in 2..Len(cs) : cs[k] = ":" /\ \A m \in 1..(k - 1) : cs[m] \in SchemeChars

getToolLogMessage(toolName, args, result) ==
  LET Or(k, d) == IF Truthy(Get(args, k)) THEN Get(args, k) ELSE StrV(d)
      BadPath(k) == Or(k, <<"u">>).t # "string"
      BadURL(k) == ~IsValidURL(ToText(Or(k, <<"u">>)))
      pathError == "The \"path\" argument must be of type string"
      summary == StrV(<<"A", "I", "M">>)
  IN CASE toolName \in {"read_file", "write_file", "append_to_file", "delete_file", "get_file_info"} ->
            IF BadPath("file_path") THEN Thrown(pathError) ELSE summary
       [] toolName \in {"list_directory", "create_directory"} ->
            IF BadPath("directory_path") THEN Thrown(pathError) ELSE summary
       [] toolName \in {"copy_files", "move_files"} ->
            IF BadPath("source") \/ BadPath("destination") THEN Thrown(pathError) ELSE summary
       [] toolName \in {"search_files", "ripgrep_search"} ->
            IF BadPath("search_path") THEN Thrown(pathError) ELSE summary
       [] toolName = "todo_read" ->
            IF Truthy(Get(result, "todos")) /\ Get(result, "todos").t # "array"
            THEN Thrown("result?.todos?.filter is not a function") ELSE summary
       [] toolName \in {"browser_navigate", "http_fetch"} ->
            IF BadURL("url") THEN Thrown("Invalid URL") ELSE summary
       [] OTHER -> summary

(***************************************************************************)
(* executeTools: logAndAddResult                                           *)
(* The run state r is [results, templateContext, progress, threw, msg].    *)
(* An error argument is [null, msg]: null when the caller passed none.     *)
(***************************************************************************)
NoError == [null |-> TRUE, msg |-> ""]

Err(m) == [null |-> FALSE, msg |-> m]

\* if (error)
ErrorTruthy(error) == ~error.null /\ error.msg # ""

ResultEntry(toolId, result) ==
  [id |-> toolId, hasResult |-> TRUE, result |-> result, hasError |-> FALSE, error |-> ""]

ErrorEntry(toolId, msg) ==
  [id |-> toolId, hasResult |-> FALSE, result |-> Undef, hasError |-> TRUE, error |-> msg]

\* a logAndAddResult that never stores the result in the template context
logAndAddResultNoContext(r, toolName, args, result, toolId, error) ==
  LET logged == ~ErrorTruthy(error) /\ Truthy(result)
      logMessage == IF logged THEN getToolLogMessage(toolName, args, result) ELSE Undef
  IN IF IsThrown(logMessage)
     THEN [r EXCEPT !.threw = TRUE, !.msg = ThrownMessage(logMessage)]
     ELSE IF ErrorTruthy(error)
          THEN [r EXCEPT !.results = Append(@, ErrorEntry(toolId, error.msg))]
          ELSE [r EXCEPT !.results = Append(@, ResultEntry(toolId, result))]

logAndAddResult(r, toolName, args, result, toolId, error) ==
  LET logged == ~ErrorTruthy(error) /\ Truthy(result)
      logMessage == IF logged THEN getToolLogMessage(toolName, args, result) ELSE Undef
  IN IF IsThrown(logMessage)
     THEN [r EXCEPT !.threw = TRUE, !.msg = ThrownMessage(logMessage)]
     ELSE LET r1 == IF logged
                    THEN [r EXCEPT !.progress = Append(@, [id |-> toolId, tool |-> toolName])]
                    ELSE r
          IN IF ErrorTruthy(error)
             THEN [r1 EXCEPT !.results = Append(@, ErrorEntry(toolId, error.msg))]
             ELSE [r1 EXCEPT !.results = Append(@, ResultEntry(toolId, result)),
                             !.templateContext = Obj(Put(@.o, toolId, result))]

(***************************************************************************)
(* executeTools: the body of the per-call try, shared by both loops        *)
(***************************************************************************)
\* a catch that swallows the exception without recording it
CatchCallDrops(r, tool, args, msg) == r

\* a catch that records the call as completed with the result null
CatchCallAsResult(r, tool, args, msg) ==
  logAndAddResult(r, tool.name, args, Null, tool.id, NoError)

\* the per-call catch: logAndAddResult(toolName, args, null, tool.id, error.message)
CatchCall(r, tool, args, msg) == logAndAddResult(r, tool.name, args, Null, tool.id, Err(msg))

\* a default case that leaves the name out of the message
UnknownToolMessageNameless(toolName) == "Unknown tool"

UnknownToolMessage(toolName) == "Unknown tool: " \o toolName

\* a loop that forgets to resolve the templates
ResolveArgsNever(tool, context, resolve) == tool.arguments

\* the arguments the switch sees: the graph-ordered loop resolves the
\* templates against the context, the fallback loop uses them as they are
ResolveArgs(tool, context, resolve) ==
  IF resolve THEN processArguments(tool.arguments, context) ELSE tool.arguments

\* One iteration for tool from run state r.  resolve says whether the loop
\* calls processArguments; outcome is what the tool implementation does if it
\* is invoked: the value it returns or the exception it throws.
\* Returns [r, args, invoked].
ProcessCall(r, tool, outcome, resolve) ==
  LET args == ResolveArgs(tool, r.templateContext, resolve)
  IN IF IsThrown(args)
     THEN [r |-> CatchCall(r, tool, tool.arguments, ThrownMessage(args)),
           args |-> args, invoked |-> FALSE]
     ELSE IF tool.name \notin KnownTools
     THEN [r |-> logAndAddResult(r, tool.name, args, Null, tool.id,
                                 Err(UnknownToolMessage(tool.name))),
           args |-> args, invoked |-> FALSE]
     ELSE IF ValidationError(tool.name, args) # ""
     THEN [r |-> logAndAddResult(r, tool.name, args, Null, tool.id,
                                 Err(ValidationError(tool.name, args))),
           args |-> args, invoked |-> FALSE]
     ELSE IF IsThrown(outcome)
     THEN [r |-> CatchCall(r, tool, args, ThrownMessage(outcome)),
           args |-> args, invoked |-> TRUE]
     ELSE LET r1 == logAndAddResult(r, tool.name, args, outcome, tool.id, NoError)
          IN [r |-> IF r1.threw THEN CatchCall(r, tool, args, r1.msg) ELSE r1,
              args |-> args, invoked |-> TRUE]

(***************************************************************************)
(* Inputs: batches of tool calls and behaviours of the implementations     *)
(***************************************************************************)
IdPool == <<"A", "B", "C", "D", "E">>

BatchIds(n) == {IdPool[i] : i \in 1..n}

\* an id outside every batch
OutsideId == "Z"

\* "{{id.key}}" with pad spaces inside the braces
Marker(id, key, pad) == <<"{", "{">> \o pad \o <<id, ".">> \o key \o pad \o <<"}", "}">>

PathKey == <<"p", "a", "t", "h">>

CountKey == <<"c", "o", "u", "n", "t">>

PlainArgs == Obj(<< <<"file_path", StrV(<<"p">>)>>, <<"content", StrV(<<"c">>)>> >>)

\* arguments whose three strings reference call ref: a whole-value marker, an
\* inline marker and a whole-value marker padded with spaces
RefArgs(ref) ==
  Obj(<< <<"file_path", StrV(Marker(ref, PathKey, <<>>))>>,
         <<"content", StrV(<<"n", "=">> \o Marker(ref, CountKey, <<>>))>>,
         <<"mode", StrV(Marker(ref, CountKey, <<" ">>))>> >>)

\* arguments without file_path, with an array holding one whole-value marker
\* per later call of the batch
FanArgs(id, n) ==
  LET own == CHOOSE i \in 1..n : IdPool[i] = id
      others == SubSeq(IdPool, own + 1, n)
  IN Obj(<< <<"content", StrV(<<"c">>)>>,
            <<"deps", Arr([k \in 1..Len(others) |->
                             <<Digits[k], StrV(Marker(others[k], PathKey, <<>>))>>])>> >>)

\* the tool names and argument objects the call id of a batch of n may have:
\* a plain valid call, a call that lacks a required argument, an unknown tool,
\* a template the engine rejects, a path argument that is a number, and one
\* call per batch id that references that id
ToolShapes(id, n) ==
  { [name |-> "write_file", arguments |-> PlainArgs],
    [name |-> "write_file", arguments |-> FanArgs(id, n)],
    [name |-> "nope", arguments |-> RefArgs(OutsideId)],
    [name |-> "write_file",
     arguments |-> Obj(<< <<"file_path", StrV(<<"p">>)>>, <<"content", StrV(<<"{", "{", "x">>)>> >>)],
    [name |-> "read_file", arguments |-> Obj(<< <<"file_path", Num(<<"5">>)>> >>)] }
  \cup {[name |-> "write_file", arguments |-> RefArgs(ref)] : ref \in BatchIds(n)}

\* the calls that may stand at position i of a batch of n: the id is IdPool[i]
CallsAt(i, n) ==
  {[id |-> IdPool[i], name |-> sh.name, arguments |-> sh.arguments] : sh \in ToolShapes(IdPool[i], n)}

RECURSIVE BatchPrefixes(_, _)
\* the first k calls of the batches of n calls
BatchPrefixes(k, n) ==
  IF k = 0 THEN {<<>>}
  ELSE {Append(b, c) : b \in BatchPrefixes(k - 1, n), c \in CallsAt(k, n)}

BatchesOf(n) == BatchPrefixes(n, n)

Batches == UNION {BatchesOf(n) : n \in 1..MaxBatch}

\* what the implementation of call id returns when it returns: the calls of a
\* batch return different values, the first one a count of 0
ResultOf(id) ==
  LET k == CHOOSE i \in 1..Len(IdPool) : IdPool[i] = id
  IN Obj(<< <<"path", StrV(<<"p", id>>)>>, <<"count", Num(<<Digits[k]>>)>>,
            <<"success", Bool(TRUE)>> >>)

ThrowMessages == {"", "boom"}

\* what the implementation of call id returns when the operation failed: an
\* object that carries the error text and success false
FailureOf(id) ==
  Obj(<< <<"content", StrV(<<>>)>>, <<"path", StrV(<<"p", id>>)>>,
         <<"error", StrV(<<"E", "N", "O", "E", "N", "T">>)>>, <<"success", Bool(FALSE)>> >>)

\* what the implementation of call id may do when it is invoked
Outcomes(id) == {ResultOf(id)} \cup {Thrown(m) : m \in ThrowMessages}

\* what the implementation of the call may do: readFile may also return the
\* object of a failed read
OutcomesOf(tool) ==
  IF tool.name = "read_file" THEN Outcomes(tool.id) \cup {FailureOf(tool.id)} ELSE Outcomes(tool.id)

(***************************************************************************)
(* executeTools as a state machine                                         *)
(***************************************************************************)
\* tools, order, results and templateContext are the variables of executeTools;
\* pc is its position (start, graph, fallback, done) and pos the loop index.
\* progress lists the summary lines given to logger.info.  trace and edges are
\* history: one record per processed call, and for every call of the batch the
\* ids of the batch that the markers in its arguments name.
VARIABLES tools, pc, order, pos, results, templateContext, progress, trace, edges

\* One use of the template resolver on its own: tplPath and tplForm describe
\* the argument string, tplArgs is the argument object that holds it,
\* tplContext the context, tplOut the value processArguments returns and
\* tplPc the position (idle, input, resolved).
VARIABLES tplPath, tplForm, tplArgs, tplContext, tplOut, tplPc

\* tplFound is the Set the last extractVariables(tplArgs) returned, in
\* insertion order, and tplScans the number of such calls so far.
VARIABLES tplFound, tplScans

\* One StreamingJSONParser fed fragment by fragment: decChunks are the
\* fragments, decFed the number of addChunk calls made, decParser the parser,
\* decUpdates the updates returned so far, each with the number of the call
\* that returned it, and decPc the position (idle, feeding, hung).
VARIABLES decChunks, decFed, decParser, decUpdates, decPc

\* One handleStreamingResponse session.  stream holds the 'data' events still
\* to come, each the lines of one chunk; interactive and registered are the
\* callbacks argument (live display on, callbacks given); accumulatedContent,
\* finalResponse, parser, thinkingDisplayed and contentDisplayed are the
\* variables of the function; settled and settledValue are the promise;
\* streamPc is the position (idle, streaming, ended, hung).  calls and
\* completed are history: the onThoughts and onContent calls made, and the
\* values of the complete updates the parser returned.
VARIABLES stream, interactive, registered, accumulatedContent, finalResponse, parser,
          thinkingDisplayed, contentDisplayed, settled, settledValue, streamPc, calls, completed

execVars == <<tools, pc, order, pos, results, templateContext, progress, trace, edges>>

tplVars == <<tplPath, tplForm, tplArgs, tplContext, tplOut, tplPc, tplFound, tplScans>>

decVars == <<decChunks, decFed, decParser, decUpdates, decPc>>

streamVars ==
  <<stream, interactive, registered, accumulatedContent, finalResponse, parser,
    thinkingDisplayed, contentDisplayed, settled, settledValue, streamPc, calls, completed>>

\* what the actions of executeTools leave alone
nonExecVars == <<tplVars, decVars, streamVars>>

\* what the actions of the template resolver leave alone
nonTplVars == <<execVars, decVars, streamVars>>

\* what the actions of the parser leave alone
nonDecVars == <<execVars, tplVars, streamVars>>

\* what the actions of the streaming session leave alone
nonStreamVars == <<execVars, tplVars, decVars>>

vars == <<execVars, tplVars, decVars, streamVars>>

\* constructor() of StreamingJSONParser
NewParser ==
  [buffer |-> <<>>, state |-> "waiting", bracketCount |-> 0, arrayCount |-> 0,
   inString |-> FALSE, escaped |-> FALSE, completedFields |-> <<>>]

DecIdle ==
  /\ decChunks = <<>>
  /\ decFed = 0
  /\ decParser = NewParser
  /\ decUpdates = <<>>
  /\ decPc = "idle"

StreamIdle ==
  /\ stream = <<>>
  /\ interactive = FALSE
  /\ registered = FALSE
  /\ accumulatedContent = <<>>
  /\ finalResponse = Null
  /\ parser = NewParser
  /\ thinkingDisplayed = FALSE
  /\ contentDisplayed = FALSE
  /\ settled = "pending"
  /\ settledValue = Undef
  /\ streamPc = "idle"
  /\ calls = <<>>
  /\ completed = <<>>

TplIdle ==
  /\ tplPath = <<>>
  /\ tplForm = [inner |-> 0, lead |-> 0, trail |-> 0, prefix |-> <<>>, suffix |-> <<>>]
  /\ tplArgs = Undef
  /\ tplContext = Undef
  /\ tplOut = Undef
  /\ tplPc = "idle"
  /\ tplFound = <<>>
  /\ tplScans = 0

ExecIdle ==
  /\ tools = <<>>
  /\ pc = "idle"
  /\ order = <<>>
  /\ pos = 1
  /\ results = <<>>
  /\ templateContext = Obj(<<>>)
  /\ progress = <<>>
  /\ trace = <<>>
  /\ edges = <<>>

\* the ids that start the variable paths in the arguments of a call
ReferencedIds(tool) ==
  LET variables == extractVariables(tool.arguments)
  IN {FirstSegment(variables[k]) : k \in 1..Len(variables)}

RECURSIVE EdgesOf(_, _)
\* the pairs <<id, referenced ids of the batch>> of the calls of batch
EdgesOf(batch, ids) ==
  IF batch = <<>> THEN <<>>
  ELSE << <<Head(batch).id, ReferencedIds(Head(batch)) \cap ids>> >> \o EdgesOf(Tail(batch), ids)

RunState ==
  [results |-> results, templateContext |-> templateContext, progress |-> progress,
   threw |-> FALSE, msg |-> ""]

\* toolMap.get(toolId): the last call with that id
ToolMapGet(toolId) ==
  LET last == CHOOSE i \in 1..Len(tools) :
                /\ tools[i].id = toolId
                /\ \A k \in (i + 1)..Len(tools) : tools[k].id # toolId
  IN tools[last]

Init ==
  /\ tools \in Batches
  /\ pc = "start"
  /\ order = <<>>
  /\ pos = 1
  /\ results = <<>>
  /\ templateContext = Obj(<<>>)
  /\ progress = <<>>
  /\ trace = <<>>
  /\ edges = EdgesOf(tools, ToolIds(tools))
  /\ TplIdle
  /\ DecIdle
  /\ StreamIdle

\* buildDependencyGraph returned: the loop over order begins
StartGraphOrdered ==
  /\ pc = "start"
  /\ ~buildDependencyGraph(tools).threw
  /\ order' = buildDependencyGraph(tools).order
  /\ pc' = "graph"
  /\ UNCHANGED <<tools, pos, results, templateContext, progress, trace, edges>>
  /\ UNCHANGED nonExecVars

\* an outer catch that returns the empty results without running the calls
StartFallbackReturns ==
  /\ pc = "start"
  /\ buildDependencyGraph(tools).threw
  /\ pc' = "done"
  /\ UNCHANGED <<tools, order, pos, results, templateContext, progress, trace, edges>>
  /\ UNCHANGED nonExecVars

\* buildDependencyGraph threw: the outer catch runs the loop over tools
StartFallback ==
  /\ pc = "start"
  /\ buildDependencyGraph(tools).threw
  /\ pc' = "fallback"
  /\ UNCHANGED <<tools, order, pos, results, templateContext, progress, trace, edges>>
  /\ UNCHANGED nonExecVars

\* an iteration whose catch hands an exception of the graph-ordered loop on to
\* the outer catch, which then runs the fallback loop from the first call
StepRethrows(tool, outcome, resolve, last) ==
  \E c \in {ProcessCall(RunState, tool, outcome, resolve)} :
     /\ results' = c.r.results
     /\ templateContext' = c.r.templateContext
     /\ progress' = c.r.progress
     /\ trace' = Append(trace, [id |-> tool.id, strategy |-> pc, context |-> templateContext,
                                args |-> c.args, invoked |-> c.invoked,
                                outcome |-> IF c.invoked THEN outcome ELSE Undef])
     /\ pos' = IF resolve /\ IsThrown(outcome) THEN 1 ELSE pos + 1
     /\ pc' = IF resolve /\ IsThrown(outcome) THEN "fallback" ELSE IF last THEN "done" ELSE pc
     /\ UNCHANGED <<tools, order, edges>>
     /\ UNCHANGED nonExecVars

\* one iteration of a loop; after the last one executeTools returns results
Step(tool, outcome, resolve, last) ==
  \E c \in {ProcessCall(RunState, tool, outcome, resolve)} :
     /\ results' = c.r.results
     /\ templateContext' = c.r.templateContext
     /\ progress' = c.r.progress
     /\ trace' = Append(trace, [id |-> tool.id, strategy |-> pc, context |-> templateContext,
                                args |-> c.args, invoked |-> c.invoked,
                                outcome |-> IF c.invoked THEN outcome ELSE Undef])
     /\ pos' = pos + 1
     /\ pc' = IF last THEN "done" ELSE pc
     /\ UNCHANGED <<tools, order, edges>>
     /\ UNCHANGED nonExecVars

\* one iteration of `for (const toolId of order)`
GraphStep ==
  /\ pc = "graph"
  /\ pos <= Len(order)
  /\ IF order[pos] \in ToolIds(tools)
     THEN \E outcome \in OutcomesOf(ToolMapGet(order[pos])) :
            Step(ToolMapGet(order[pos]), outcome, TRUE, pos = Len(order))
     ELSE /\ pos' = pos + 1
          /\ pc' = IF pos = Len(order) THEN "done" ELSE pc
          /\ UNCHANGED <<tools, order, results, templateContext, progress, trace, edges>>
          /\ UNCHANGED nonExecVars

\* one iteration of `for (const tool of tools)` in the outer catch
FallbackStep ==
  /\ pc = "fallback"
  /\ pos <= Len(tools)
  /\ \E outcome \in OutcomesOf(tools[pos]) : Step(tools[pos], outcome, FALSE, pos = Len(tools))

Next == StartGraphOrdered \/ StartFallback \/ GraphStep \/ FallbackStep

Spec == Init /\ [][Next]_vars

(***************************************************************************)
(* executeTools on batches around the default case of the switch: calls    *)
(* whose tool name is no case of it                                        *)
(***************************************************************************)
\* arguments with a template the engine rejects
RejectedArgs == Obj(<< <<"file_path", StrV(<<"p">>)>>, <<"content", StrV(<<"{", "{", "x">>)>> >>)

\* the calls with id that such a batch may hold: a valid call, an unknown
\* tool with markers that name no call, an unknown tool with a template the
\* engine rejects, a call without function (toolName is undefined, printed
\* as "undefined", and the arguments are {}), a call that references itself,
\* and a read_file call with a path
DispatchShapes(id) ==
  { [name |-> "write_file", arguments |-> PlainArgs],
    [name |-> "nope", arguments |-> RefArgs(OutsideId)],
    [name |-> "nope", arguments |-> RejectedArgs],
    [name |-> "undefined", arguments |-> Obj(<<>>)],
    [name |-> "write_file", arguments |-> RefArgs(id)],
    [name |-> "read_file", arguments |-> Obj(<< <<"file_path", StrV(<<"p">>)>> >>)] }

RECURSIVE DispatchBatchesOf(_)
\* the batches of n such calls
DispatchBatchesOf(n) ==
  IF n = 0 THEN {<<>>}
  ELSE {Append(b, [id |-> IdPool[n], name |-> sh.name, arguments |-> sh.arguments]) :
          b \in DispatchBatchesOf(n - 1), sh \in DispatchShapes(IdPool[n])}

InitDispatch ==
  /\ tools \in UNION {DispatchBatchesOf(n) : n \in 1..MaxBatch}
  /\ pc = "start"
  /\ order = <<>>
  /\ pos = 1
  /\ results = <<>>
  /\ templateContext = Obj(<<>>)
  /\ progress = <<>>
  /\ trace = <<>>
  /\ edges = EdgesOf(tools, ToolIds(tools))
  /\ TplIdle
  /\ DecIdle
  /\ StreamIdle

SpecDispatch == InitDispatch /\ [][Next]_vars

(***************************************************************************)
(* The template resolver on its own: processArguments applied to one       *)
(* argument object and one context                                         *)
(***************************************************************************)
\* largest number of spaces put inside or around a marker
MaxPad == 1

\* largest number of extractVariables calls on one argument object
MaxScans == 2

Spaces(n) == [i \in 1..n |-> " "]

RECURSIVE JoinDot(_)
\* the segments joined with "."
JoinDot(segments) ==
  IF segments = <<>> THEN <<>>
  ELSE IF Len(segments) = 1 THEN segments[1]
  ELSE segments[1] \o <<".">> \o JoinDot(Tail(segments))

\* the variable paths of the argument strings, as their segments
TemplatePaths ==
  { << <<"A">> >>,
    << <<"A">>, PathKey >>,
    << <<"A">>, CountKey >>,
    << <<"A">>, <<"x">> >>,
    << <<"A">>, <<"x">>, <<"c">> >>,
    << <<"A">>, <<"n">> >>,
    << <<"A">>, <<"n">>, <<"c">> >>,
    << <<"A">>, CountKey, <<"c">> >>,
    << <<"A">>, <<"u">> >>,
    << <<"A">>, <<"t">> >>,
    << <<"A">>, <<"h">> >>,
    << <<"A">>, <<"c", "o", "n", "s", "t", "r", "u", "c", "t", "o", "r">> >>,
    << <<"Z">>, PathKey >> }

\* the text that may follow the marker: none, literal text, or a second marker
TemplateSuffixes == {<<>>, <<" ", "f">>, <<";">> \o Marker("A", PathKey, <<>>)}

\* inner spaces inside the braces, lead and trail spaces around the marker,
\* prefix literal text before it, suffix text after it
TemplateForms ==
  [inner : 0..MaxPad, lead : 0..MaxPad, trail : 0..MaxPad, prefix : {<<>>, <<"n", "=">>},
   suffix : TemplateSuffixes]

\* the argument string of the form f for the path
TemplateString(path, f) ==
  f.prefix \o Spaces(f.lead) \o <<"{", "{">> \o Spaces(f.inner) \o JoinDot(path)
    \o Spaces(f.inner) \o <<"}", "}">> \o Spaces(f.trail) \o f.suffix

\* the argument string is one marker and nothing else
IsWholeMarker ==
  tplForm.lead = 0 /\ tplForm.trail = 0 /\ tplForm.prefix = <<>> /\ tplForm.suffix = <<>>

\* a segment of the path names an inherited property
HasInheritedSegment(path) == \E k \in 1..Len(path) : Str(path[k]) \in InheritedKeys

\* the string as an argument and as an element of an array argument
TemplateArgs(path, f) ==
  Obj(<< <<"arg", StrV(TemplateString(path, f))>>,
         <<"list", Arr(<< <<"0", StrV(TemplateString(path, f))>> >>)>> >>)

TemplateContexts ==
  { Obj(<< <<"A", Obj(<< <<"path", StrV(<<"p">>)>>,
                        <<"count", Num(<<"5">>)>>,
                        <<"x", Obj(<< <<"c", StrV(<<"h">>)>> >>)>>,
                        <<"n", Null>>,
                        <<"u", Arr(<< <<"0", StrV(<<"a">>)>>, <<"1", Num(<<"2">>)>> >>)>>,
                        <<"t", Bool(TRUE)>> >>)>> >>),
    Obj(<< <<"A", Obj(<< <<"path", StrV(<<>>)>>, <<"count", Num(<<"0">>)>>,
                        <<"t", Bool(FALSE)>> >>)>> >>),
    Obj(<< <<"A", Null>> >>),
    Obj(<<>>) }

\* the rendering of a function value by the template engine is not modelled:
\* a path over an inherited property comes as a whole-value marker only
InitTemplate ==
  /\ tplPath \in TemplatePaths
  /\ tplForm \in TemplateForms
  /\ HasInheritedSegment(tplPath) => IsWholeMarker
  /\ tplArgs = TemplateArgs(tplPath, tplForm)
  /\ tplContext \in TemplateContexts
  /\ tplOut = Undef
  /\ tplPc = "input"
  /\ tplFound = <<>>
  /\ tplScans = 0
  /\ ExecIdle
  /\ DecIdle
  /\ StreamIdle

\* TemplateProcessor.processArguments(args, context)
TemplateResolve ==
  /\ tplPc = "input"
  /\ tplOut' = processArguments(tplArgs, tplContext)
  /\ tplPc' = "resolved"
  /\ UNCHANGED <<tplPath, tplForm, tplArgs, tplContext, tplFound, tplScans>>
  /\ UNCHANGED nonTplVars

\* TemplateProcessor.extractVariables(args), before or after the resolution
\* and up to MaxScans times
TemplateExtract ==
  /\ tplPc \in {"input", "resolved"}
  /\ tplScans < MaxScans
  /\ tplFound' = extractVariables(tplArgs)
  /\ tplScans' = tplScans + 1
  /\ UNCHANGED <<tplPath, tplForm, tplArgs, tplContext, tplOut, tplPc>>
  /\ UNCHANGED nonTplVars

NextTemplate == TemplateResolve \/ TemplateExtract

SpecTemplate == InitTemplate /\ [][NextTemplate]_vars

(***************************************************************************)
(* JSON.parse, for text made of objects, arrays, strings, non-negative     *)
(* integers and the literals true, false and null                          *)
(***************************************************************************)
IsSpace(c) == c \in {" ", "\n", "\t", "\r"}

\* the element of a one-element set: binds a value that is computed once
The(S) == CHOOSE x \in S : TRUE

\* the least index of the set S of indexes, or 0 when S is empty
FirstOf(S) == IF S = {} THEN 0 ELSE CHOOSE j \in S : \A k \in S : j <= k

\* the first index at or after i that holds a character of the set C, or 0
FirstIn(cs, i, C) == FirstOf({j \in i..Len(cs) : cs[j] \in C})

RECURSIVE SkipSpaces(_, _)
\* the first index at or after i that holds no white space
SkipSpaces(cs, i) ==
  IF i <= Len(cs) /\ IsSpace(cs[i]) THEN SkipSpaces(cs, i + 1) ELSE i

\* the characters that may follow a backslash in the modelled text, and the
\* character each escape stands for
EscapeChars == {"\"", "\\", "/", "n", "t", "r"}

Unescape(c) ==
  CASE c = "n" -> "\n"
    [] c = "t" -> "\t"
    [] c = "r" -> "\r"
    [] OTHER -> c

IsDigit(c) == c \in {"0", "1", "2", "3", "4", "5", "6", "7", "8", "9"}

RECURSIVE DigitsEnd(_, _)
\* the first index at or after i that holds no digit
DigitsEnd(cs, i) ==
  IF i <= Len(cs) /\ IsDigit(cs[i]) THEN DigitsEnd(cs, i + 1) ELSE i

\* a failed parse; ok results are [ok, v, next] with next the index after the value
JsonFail == [ok |-> FALSE, v |-> Undef, next |-> 0]

StartsWith(cs, i, word) ==
  i + Len(word) - 1 <= Len(cs) /\ SubSeq(cs, i, i + Len(word) - 1) = word

RECURSIVE JsonString(_, _, _)
\* the string whose characters start at i, after the opening quote
JsonString(cs, i, acc) ==
  IF i > Len(cs) THEN JsonFail
  ELSE IF cs[i] = "\"" THEN [ok |-> TRUE, v |-> StrV(acc), next |-> i + 1]
  ELSE IF cs[i] = "\\" THEN
    IF i + 1 <= Len(cs) /\ cs[i + 1] \in EscapeChars
    THEN JsonString(cs, i + 2, Append(acc, Unescape(cs[i + 1])))
    ELSE JsonFail
  ELSE IF cs[i] \in {"\n", "\t", "\r"} THEN JsonFail
  ELSE LET j == FirstIn(cs, i, {"\"", "\\", "\n", "\t", "\r"})
       IN IF j = 0 THEN JsonFail ELSE JsonString(cs, j, acc \o SubSeq(cs, i, j - 1))

RECURSIVE JsonValue(_, _)
RECURSIVE JsonMembers(_, _, _)
RECURSIVE JsonElements(_, _, _)
\* the value that starts at or after i
JsonValue(cs, i) ==
  LET j == SkipSpaces(cs, i)
  IN IF j > Len(cs) THEN JsonFail
     ELSE IF cs[j] = "\"" THEN JsonString(cs, j + 1, <<>>)
     ELSE IF cs[j] = "{" THEN
       LET k == SkipSpaces(cs, j + 1)
       IN IF k <= Len(cs) /\ cs[k] = "}" THEN [ok |-> TRUE, v |-> Obj(<<>>), next |-> k + 1]
          ELSE JsonMembers(cs, j + 1, <<>>)
     ELSE IF cs[j] = "[" THEN
       LET k == SkipSpaces(cs, j + 1)
       IN IF k <= Len(cs) /\ cs[k] = "]" THEN [ok |-> TRUE, v |-> Arr(<<>>), next |-> k + 1]
          ELSE JsonElements(cs, j + 1, <<>>)
     ELSE IF IsDigit(cs[j]) THEN
       LET e == IF cs[j] = "0" THEN j + 1 ELSE DigitsEnd(cs, j)
       IN [ok |-> TRUE, v |-> Num(SubSeq(cs, j, e - 1)), next |-> e]
     ELSE IF StartsWith(cs, j, <<"t", "r", "u", "e">>) THEN [ok |-> TRUE, v |-> Bool(TRUE), next |-> j + 4]
     ELSE IF StartsWith(cs, j, <<"f", "a", "l", "s", "e">>) THEN [ok |-> TRUE, v |-> Bool(FALSE), next |-> j + 5]
     ELSE IF StartsWith(cs, j, <<"n", "u", "l", "l">>) THEN [ok |-> TRUE, v |-> Null, next |-> j + 4]
     ELSE JsonFail

\* the members of an object from index i on; a repeated key keeps its last value
JsonMembers(cs, i, pairs) ==
  LET j == SkipSpaces(cs, i)
      Value(key, c) ==
        The({LET d == SkipSpaces(cs, val.next)
                 more == Put(pairs, Str(key.v.s), val.v)
             IN IF ~val.ok \/ d > Len(cs) THEN JsonFail
                ELSE IF cs[d] = "," THEN JsonMembers(cs, d + 1, more)
                ELSE IF cs[d] = "}" THEN [ok |-> TRUE, v |-> Obj(more), next |-> d + 1]
                ELSE JsonFail
               : val \in {JsonValue(cs, c + 1)}})
  IN IF j > Len(cs) \/ cs[j] # "\"" THEN JsonFail
     ELSE The({LET c == SkipSpaces(cs, key.next)
               IN IF ~key.ok \/ c > Len(cs) \/ cs[c] # ":" THEN JsonFail ELSE Value(key, c)
                 : key \in {JsonString(cs, j + 1, <<>>)}})

\* the elements of an array from index i on
JsonElements(cs, i, pairs) ==
  The({LET d == SkipSpaces(cs, val.next)
           more == Append(pairs, <<Digits[Len(pairs) + 1], val.v>>)
       IN IF ~val.ok \/ d > Len(cs) THEN JsonFail
          ELSE IF cs[d] = "," THEN JsonElements(cs, d + 1, more)
          ELSE IF cs[d] = "]" THEN [ok |-> TRUE, v |-> Arr(more), next |-> d + 1]
          ELSE JsonFail
         : val \in {JsonValue(cs, i)}})

\* JSON.parse(text): the value, or the SyntaxError it throws
JSONParse(cs) ==
  The({IF r.ok /\ SkipSpaces(cs, r.next) > Len(cs) THEN r.v ELSE Thrown("SyntaxError")
         : r \in {JsonValue(cs, 1)}})

(***************************************************************************)
(* StreamingJSONParser                                                     *)
(* A parser is the record of its fields; completedFields is the sequence   *)
(* of <<name, value>> pairs of the object, the value a character sequence. *)
(***************************************************************************)
\* reset(): everything but the buffer
reset(p) ==
  [p EXCEPT !.state = "waiting", !.bracketCount = 0, !.arrayCount = 0,
            !.inString = FALSE, !.escaped = FALSE, !.completedFields = <<>>]

\* this.completedFields[name] is truthy: written with a non-empty value
FieldCompleted(p, name) ==
  \E k \in 1..Len(p.completedFields) :
    p.completedFields[k][1] = name /\ p.completedFields[k][2] # <<>>

\* this.completedFields.name || '' as characters
CompletedValue(p, name) ==
  IF \E k \in 1..Len(p.completedFields) : p.completedFields[k][1] = name
  THEN p.completedFields[CHOOSE k \in 1..Len(p.completedFields) : p.completedFields[k][1] = name][2]
  ELSE <<>>

\* index of the first quote at or after i, or 0
NextQuote(cs, i) == FirstIn(cs, i, {"\""})

\* /"([^"]+)":\s*"/ matches with its first quote at index s
FieldStartAt(cs, s) ==
  /\ cs[s] = "\""
  /\ LET e == NextQuote(cs, s + 1)
     IN /\ e > s + 1
        /\ e + 1 <= Len(cs)
        /\ cs[e + 1] = ":"
        /\ SkipSpaces(cs, e + 2) <= Len(cs)
        /\ cs[SkipSpaces(cs, e + 2)] = "\""

\* fieldStartRegex.exec(cs): the index of the first match at or after s, or 0
FirstFieldStart(cs, s) == FirstOf({j \in s..Len(cs) : FieldStartAt(cs, j)})

RECURSIVE ExtractFrom(_, _, _, _)
\* the while loop of extractStringValue; a run of characters that are neither
\* backslash nor quote is taken in one step
ExtractFrom(buffer, i, value, escapeCount) ==
  IF i > Len(buffer) THEN [found |-> FALSE, value |-> <<>>, closing |-> 0]
  ELSE IF buffer[i] = "\\" THEN ExtractFrom(buffer, i + 1, Append(value, buffer[i]), escapeCount + 1)
  ELSE IF buffer[i] = "\"" THEN
    IF escapeCount % 2 = 0 THEN [found |-> TRUE, value |-> value, closing |-> i]
    ELSE ExtractFrom(buffer, i + 1, Append(value, buffer[i]), 0)
  ELSE LET j == FirstIn(buffer, i, {"\\", "\""})
       IN IF j = 0 THEN [found |-> FALSE, value |-> <<>>, closing |-> 0]
          ELSE ExtractFrom(buffer, j, value \o SubSeq(buffer, i, j - 1), 0)

\* extractStringValue(buffer, startIndex): null is found = FALSE, and endIndex
\* is the index after closing, the index of the closing quote
extractStringValue(buffer, startIndex) == ExtractFrom(buffer, startIndex, <<>>, 0)

NoField == [found |-> FALSE, name |-> "", value |-> <<>>, closing |-> 0]

\* tryExtractField(currentIndex) for the character at index k
tryExtractField(p, k) ==
  LET remainingBuffer == SubSeq(p.buffer, 1, k)
      Field(s, e) ==
        LET fieldName == Str(SubSeq(remainingBuffer, s + 1, e - 1))
            valueStartIndex == SkipSpaces(remainingBuffer, e + 2) + 1
        IN IF FieldCompleted(p, fieldName) THEN NoField
           ELSE The({IF ~extractedValue.found THEN NoField
                     ELSE [found |-> TRUE, name |-> fieldName, value |-> extractedValue.value,
                           closing |-> extractedValue.closing]
                       : extractedValue \in {extractStringValue(remainingBuffer, valueStartIndex)}})
  IN The({IF s = 0 THEN NoField
          ELSE The({Field(s, e) : e \in {NextQuote(remainingBuffer, s + 1)}})
            : s \in {FirstFieldStart(remainingBuffer, 1)}})

\* an element of the updates array; after is the parser as the event leaves it
FieldUpdate(name, value, p) ==
  [type |-> "field", field |-> name, value |-> value, data |-> Undef, after |-> p]

CompleteUpdate(parsed, p) ==
  [type |-> "complete", field |-> "", value |-> <<>>, data |-> parsed, after |-> p]

\* the structure tracking of one character outside a string: the parser and,
\* when a top-level object closed and parsed, the complete update
Structure(p, k) ==
  LET char == p.buffer[k]
      closed == [p EXCEPT !.bracketCount = @ - 1]
      rest == [reset(closed) EXCEPT !.buffer = SubSeq(p.buffer, k + 1, Len(p.buffer))]
  IN IF char = "{" THEN
       [parser |-> [p EXCEPT !.bracketCount = @ + 1,
                             !.state = IF p.bracketCount + 1 = 1 THEN "in_object" ELSE @],
        complete |-> FALSE, data |-> Undef]
     ELSE IF char = "}" THEN
       IF closed.bracketCount # 0 THEN [parser |-> closed, complete |-> FALSE, data |-> Undef]
       ELSE The({IF ~IsThrown(parsed) THEN [parser |-> rest, complete |-> TRUE, data |-> parsed]
                 ELSE [parser |-> closed, complete |-> FALSE, data |-> Undef]
                   : parsed \in {JSONParse(SubSeq(p.buffer, 1, k))}})
     ELSE IF char = "[" THEN
       [parser |-> [p EXCEPT !.arrayCount = @ + 1], complete |-> FALSE, data |-> Undef]
     ELSE IF char = "]" THEN
       [parser |-> [p EXCEPT !.arrayCount = @ - 1], complete |-> FALSE, data |-> Undef]
     ELSE [parser |-> p, complete |-> FALSE, data |-> Undef]

\* the number of backslashes in a row just before index j, from index k on
BackslashRun(cs, k, j) ==
  LET others == {i \in k..(j - 1) : cs[i] # "\\"}
  IN IF others = {} THEN j - k ELSE j - 1 - (CHOOSE i \in others : \A m \in others : m <= i)

\* the loop of addChunk inside a string whose next character is at index k:
\* a backslash sets escaped and the character after it clears it, so the
\* string ends at the first quote with an even number of backslashes before
\* it; without such a quote the buffer ends inside the string
SkipString(p, k) ==
  LET closing == FirstOf({j \in k..Len(p.buffer) :
                            p.buffer[j] = "\"" /\ BackslashRun(p.buffer, k, j) % 2 = 0})
  IN IF closing = 0
     THEN [parser |-> [p EXCEPT !.inString = TRUE,
                                !.escaped = BackslashRun(p.buffer, k, Len(p.buffer) + 1) % 2 = 1],
           next |-> Len(p.buffer) + 1]
     ELSE [parser |-> [p EXCEPT !.inString = FALSE], next |-> closing + 1]

RECURSIVE Scan(_, _, _, _)
\* the while loop of addChunk from index k.  spin is the index at which a
\* field with an empty value was last extracted: the empty value leaves the
\* field not completed, and when the scan comes back to that index in the
\* same state the loop repeats for ever and addChunk does not return.  A
\* string is passed in one step.
Scan(p, k, updates, spin) ==
  LET inside == k <= Len(p.buffer)
      string == IF p.inString THEN SkipString(p, k) ELSE SkipString(p, k + 1)
      plain == inside /\ ~p.escaped /\ ~p.inString /\ p.buffer[k] # "\""
      s == Structure(p, k)
      fieldMatch == IF s.parser.bracketCount = 1 /\ s.parser.arrayCount = 0
                    THEN tryExtractField(s.parser, k) ELSE NoField
      q == [s.parser EXCEPT !.completedFields = Put(@, fieldMatch.name, fieldMatch.value)]
      extracted == plain /\ ~s.complete /\ fieldMatch.found
  IN CASE ~inside -> [parser |-> p, updates |-> updates, returns |-> TRUE]
       [] inside /\ p.escaped -> Scan([p EXCEPT !.escaped = FALSE], k + 1, updates, spin)
       [] inside /\ ~p.escaped /\ (p.inString \/ p.buffer[k] = "\"") ->
            Scan(string.parser, string.next, updates, spin)
       [] plain /\ s.complete ->
            Scan(s.parser, 1, Append(updates, CompleteUpdate(s.data, s.parser)), 0)
       [] plain /\ ~s.complete /\ ~fieldMatch.found -> Scan(s.parser, k + 1, updates, spin)
       [] extracted /\ fieldMatch.value = <<>> /\ spin = k ->
            [parser |-> q, updates |-> updates, returns |-> FALSE]
       [] extracted /\ ~(fieldMatch.value = <<>> /\ spin = k) ->
            Scan(q, fieldMatch.closing + 1,
                 Append(updates, FieldUpdate(fieldMatch.name, fieldMatch.value, q)),
                 IF fieldMatch.value = <<>> THEN k ELSE spin)

\* addChunk(chunk): the parser, the updates returned, and whether it returns
addChunk(p, chunk) == Scan([p EXCEPT !.buffer = @ \o chunk], 1, <<>>, 0)

(***************************************************************************)
(* The parser on its own: a text cut into fragments, one addChunk each     *)
(***************************************************************************)
\* largest number of fragments a text is cut into
MaxFragments == 3

\* two string fields: {"t":"Hi","c":"ok"}
DocTwoFields == <<"{", "\"", "t", "\"", ":", "\"", "H", "i", "\"", ",", "\"", "c", "\"", ":", "\"", "o", "k", "\"", "}">>

\* a value with an escaped quote: {"t":"a\"b","n":1}
DocEscapedQuote == <<"{", "\"", "t", "\"", ":", "\"", "a", "\\", "\"", "b", "\"", ",", "\"", "n", "\"", ":", "1", "}">>

\* a value that ends with an escaped backslash: {"t":"a\\","c":"d"}
DocEscapedBackslash == <<"{", "\"", "t", "\"", ":", "\"", "a", "\\", "\\", "\"", ",", "\"", "c", "\"", ":", "\"", "d", "\"", "}">>

\* two objects back to back: {"a":"b"}{"c":"d"}
DocTwoObjects == <<"{", "\"", "a", "\"", ":", "\"", "b", "\"", "}", "{", "\"", "c", "\"", ":", "\"", "d", "\"", "}">>

\* a first field with an empty value: {"t":"","c":"x"}
DocEmptyValue == <<"{", "\"", "t", "\"", ":", "\"", "\"", ",", "\"", "c", "\"", ":", "\"", "x", "\"", "}">>

\* a nested object before a string field: {"o":{"k":"v"},"t":"s"}
DocNested == <<"{", "\"", "o", "\"", ":", "{", "\"", "k", "\"", ":", "\"", "v", "\"", "}", ",", "\"", "t", "\"", ":", "\"", "s", "\"", "}">>

\* balanced braces around text that does not parse: {"a":}
DocUnparsable == <<"{", "\"", "a", "\"", ":", "}">>

\* the two fields under their names in the model output, with spaces: {"thoughts": "Hi there", "content":"ok"}
DocExample ==
  <<"{", "\"", "t", "h", "o", "u", "g", "h", "t", "s", "\"", ":", " ", "\"", "H", "i", " ",
  "t", "h", "e", "r", "e", "\"", ",", " ", "\"", "c", "o", "n", "t", "e", "n", "t", "\"",
  ":", "\"", "o", "k", "\"", "}">>

\* an object after text that is no whitespace: x{"a":"b"}
DocPrefixed == <<"x", "{", "\"", "a", "\"", ":", "\"", "b", "\"", "}">>

\* an object after a closing brace and a closing bracket that match nothing: }]{"a":"b"}
DocStrayClosers == <<"}", "]", "{", "\"", "a", "\"", ":", "\"", "b", "\"", "}">>

Documents ==
  {DocExample, DocTwoFields, DocEscapedQuote, DocEscapedBackslash, DocTwoObjects, DocEmptyValue,
   DocNested, DocUnparsable, DocPrefixed, DocStrayClosers}

RECURSIVE Fragmentations(_, _)
\* the ways to cut cs into at most n fragments, none empty
Fragmentations(cs, n) ==
  IF n <= 1 \/ Len(cs) <= 1 THEN {<<cs>>}
  ELSE {<<cs>>} \cup
       UNION {{<<SubSeq(cs, 1, k)>> \o rest : rest \in Fragmentations(SubSeq(cs, k + 1, Len(cs)), n - 1)} :
                k \in 1..(Len(cs) - 1)}

RECURSIVE Concat(_)
\* the fragments joined
Concat(chunks) == IF chunks = <<>> THEN <<>> ELSE Head(chunks) \o Concat(Tail(chunks))

InitDecoder ==
  /\ decChunks \in UNION {Fragmentations(doc, MaxFragments) : doc \in Documents}
  /\ decFed = 0
  /\ decParser = NewParser
  /\ decUpdates = <<>>
  /\ decPc = "feeding"
  /\ ExecIdle
  /\ TplIdle
  /\ StreamIdle

\* one addChunk call with the next fragment; a call that does not return
\* leaves the caller in it for ever
AddChunk ==
  /\ decPc = "feeding"
  /\ decFed < Len(decChunks)
  /\ \E r \in {addChunk(decParser, decChunks[decFed + 1])} :
       /\ decParser' = r.parser
       /\ decUpdates' = decUpdates \o [k \in 1..Len(r.updates) |-> [call |-> decFed + 1, update |-> r.updates[k]]]
       /\ decFed' = IF r.returns THEN decFed + 1 ELSE decFed
       /\ decPc' = IF r.returns THEN "feeding" ELSE "hung"
  /\ UNCHANGED decChunks
  /\ UNCHANGED nonDecVars

NextDecoder == AddChunk

SpecDecoder == InitDecoder /\ [][NextDecoder]_vars

(***************************************************************************)
(* handleStreamingResponse                                                 *)
(* A line of a chunk is [kind, delta]: kind "delta" is a data line whose   *)
(* envelope parses and holds the content fragment delta, "done" the data   *)
(* line [DONE], and "skip" any other line (no data prefix, an envelope     *)
(* that does not parse, or one without a content fragment).                *)
(***************************************************************************)
DeltaLine(text) == [kind |-> "delta", delta |-> text]

DoneLine == [kind |-> "done", delta |-> <<>>]

SkipLine == [kind |-> "skip", delta |-> <<>>]

ThoughtsName == <<"t", "h", "o", "u", "g", "h", "t", "s">>

ContentName == <<"c", "o", "n", "t", "e", "n", "t">>

\* this.buffer.match(/"name":\s*"/): the index after the match, or 0
FieldValueStart(buffer, name) ==
  LET opening == <<"\"">> \o name \o <<"\"", ":">>
      s == FirstOf({j \in 1..Len(buffer) :
                      /\ StartsWith(buffer, j, opening)
                      /\ SkipSpaces(buffer, j + Len(opening)) <= Len(buffer)
                      /\ buffer[SkipSpaces(buffer, j + Len(opening))] = "\""})
  IN IF s = 0 THEN 0 ELSE SkipSpaces(buffer, s + Len(opening)) + 1

NoPartial == [type |-> "", content |-> <<>>]

\* getPartialContent(): null is NoPartial
getPartialContent(p) ==
  LET Found(name) ==
        The({IF start = 0 THEN [found |-> FALSE, value |-> <<>>, closing |-> 0]
             ELSE extractStringValue(p.buffer, start)
               : start \in {FieldValueStart(p.buffer, name)}})
  IN The({IF tv.found THEN [type |-> "thoughts", content |-> tv.value]
          ELSE The({IF cv.found THEN [type |-> "content", content |-> cv.value] ELSE NoPartial
                      : cv \in {Found(ContentName)}})
            : tv \in {Found(ThoughtsName)}})

\* the notes of the two synthetic responses
NotValidNote ==
  <<"S", "t", "r", "e", "a", "m", "e", "d", " ", "c", "o", "n", "t", "e", "n", "t", " ", "w",
  "a", "s", " ", "n", "o", "t", " ", "v", "a", "l", "i", "d", " ", "J", "S", "O", "N">>

CouldNotParseNote ==
  <<"C", "o", "u", "l", "d", " ", "n", "o", "t", " ", "p", "a", "r", "s", "e", " ", "s", "t",
  "r", "e", "a", "m", "i", "n", "g", " ", "r", "e", "s", "p", "o", "n", "s", "e", " ", "a",
  "s", " ", "J", "S", "O", "N">>

\* x || y for character sequences
OrElse(x, y) == IF x # <<>> THEN x ELSE y

\* {thoughts: completedFields.thoughts || '', content: completedFields.content || accumulatedContent}
Captured(p, text) ==
  << <<"thoughts", StrV(CompletedValue(p, "thoughts"))>>,
     <<"content", StrV(OrElse(CompletedValue(p, "content"), text))>> >>

\* the local variables of the session that the handlers change
Session ==
  [accumulatedContent |-> accumulatedContent, finalResponse |-> finalResponse, parser |-> parser,
   thinkingDisplayed |-> thinkingDisplayed, contentDisplayed |-> contentDisplayed,
   settled |-> settled, settledValue |-> settledValue, calls |-> calls, completed |-> completed,
   returns |-> TRUE]

\* resolve(value): the first settlement stands
resolve(ss, value) ==
  IF ss.settled = "pending" THEN [ss EXCEPT !.settled = "resolved", !.settledValue = value] ELSE ss

Call(name, value, partial) == [callback |-> name, value |-> value, partial |-> partial]

\* onFieldComplete(update.field, update.value)
FieldCall(field, value) ==
  [callback |-> "onFieldComplete", field |-> field, value |-> value, partial |-> FALSE]

RECURSIVE OnUpdates(_, _, _)
\* for (const update of updates) of the data handler; reg is the callbacks given
OnUpdates(ss, updates, reg) ==
  IF updates = <<>> THEN ss
  ELSE
    LET update == Head(updates)
        told == IF reg
                THEN [ss EXCEPT !.calls = Append(@, FieldCall(update.field, update.value))]
                ELSE ss
        next ==
          IF update.type = "complete"
          THEN [ss EXCEPT !.finalResponse = update.data, !.completed = Append(@, update.data)]
          ELSE IF update.field = "thoughts" /\ reg /\ ~ss.thinkingDisplayed
          THEN [told EXCEPT !.calls = Append(@, Call("onThoughts", update.value, FALSE)),
                              !.thinkingDisplayed = TRUE]
          ELSE IF update.field = "content" /\ reg /\ ~ss.contentDisplayed
          THEN [told EXCEPT !.calls = Append(@, Call("onContent", update.value, FALSE)),
                            !.contentDisplayed = TRUE]
          ELSE told
    IN The({OnUpdates(n, Tail(updates), reg) : n \in {next}})

\* a partial display that leaves the displayed flags as they are
ShowPartialKeepsFlags(ss, live, reg) ==
  IF ~(live /\ ~ss.thinkingDisplayed /\ ~ss.contentDisplayed) THEN ss
  ELSE The({IF partial.type = "thoughts" /\ reg
            THEN [ss EXCEPT !.calls = Append(@, Call("onThoughts", partial.content, TRUE))]
            ELSE IF partial.type = "content" /\ reg
            THEN [ss EXCEPT !.calls = Append(@, Call("onContent", partial.content, TRUE))]
            ELSE ss
              : partial \in {getPartialContent(ss.parser)}})

\* the partial display of the data handler; live is callbacks.interactive
ShowPartial(ss, live, reg) ==
  IF ~(live /\ ~ss.thinkingDisplayed /\ ~ss.contentDisplayed) THEN ss
  ELSE The({IF partial.type = "thoughts" /\ reg
            THEN [ss EXCEPT !.calls = Append(@, Call("onThoughts", partial.content, TRUE)),
                            !.thinkingDisplayed = TRUE]
            ELSE IF partial.type = "content" /\ reg
            THEN [ss EXCEPT !.calls = Append(@, Call("onContent", partial.content, TRUE)),
                            !.contentDisplayed = TRUE]
            ELSE ss
              : partial \in {getPartialContent(ss.parser)}})

\* a data line with the content fragment delta; an addChunk call that does
\* not return leaves the handler in it
OnDelta(ss, delta, live, reg) ==
  IF delta = <<>> THEN ss
  ELSE The({LET fed == [ss EXCEPT !.accumulatedContent = @ \o delta, !.parser = r.parser]
            IN IF ~r.returns THEN [fed EXCEPT !.returns = FALSE]
               ELSE The({ShowPartial(u, live, reg) : u \in {OnUpdates(fed, r.updates, reg)}})
              : r \in {addChunk(ss.parser, delta)}})

\* the data line [DONE]
OnDone(ss) ==
  LET blank == \A k \in 1..Len(ss.accumulatedContent) : IsSpace(ss.accumulatedContent[k])
      synthetic == Obj(Append(Captured(ss.parser, ss.accumulatedContent),
                              <<"reasoning", StrV(NotValidNote)>>))
      final == IF blank THEN ss.finalResponse
               ELSE The({IF ~IsThrown(parsed) THEN parsed ELSE synthetic :
                           parsed \in {JSONParse(ss.accumulatedContent)}})
  IN The({resolve([ss EXCEPT !.finalResponse = f],
                  IF Truthy(f) THEN f ELSE Obj(Captured(ss.parser, ss.accumulatedContent)))
            : f \in {final}})

RECURSIVE OnLines(_, _, _, _)
\* for (const line of lines) of the data handler: [DONE] returns from it
OnLines(ss, lines, live, reg) ==
  IF lines = <<>> \/ ~ss.returns THEN ss
  ELSE IF Head(lines).kind = "done" THEN OnDone(ss)
  ELSE IF Head(lines).kind = "delta"
  THEN The({OnLines(n, Tail(lines), live, reg) : n \in {OnDelta(ss, Head(lines).delta, live, reg)}})
  ELSE OnLines(ss, Tail(lines), live, reg)

\* the 'end' handler
OnEndOfStream(ss) ==
  LET synthetic == Obj(Append(Captured(ss.parser, ss.accumulatedContent),
                              <<"reasoning", StrV(CouldNotParseNote)>>))
      final == IF Truthy(ss.finalResponse) THEN ss.finalResponse
               ELSE The({IF ~IsThrown(parsed) THEN parsed ELSE synthetic :
                           parsed \in {JSONParse(ss.accumulatedContent)}})
  IN The({resolve([ss EXCEPT !.finalResponse = f], f) : f \in {final}})

(***************************************************************************)
(* One session: the model output cut into content fragments, one data line *)
(* per chunk followed by an empty line, with or without the [DONE] line    *)
(***************************************************************************)
\* largest number of content fragments the model output is cut into
MaxDeltas == 2

\* the two fields of a reply: {"thoughts":"Hi","content":"ok"}
TextReply ==
  <<"{", "\"", "t", "h", "o", "u", "g", "h", "t", "s", "\"", ":", "\"", "H", "i", "\"", ",",
  "\"", "c", "o", "n", "t", "e", "n", "t", "\"", ":", "\"", "o", "k", "\"", "}">>

\* a reply followed by more text: {"content":"ok"} x
TextReplyThenText ==
  <<"{", "\"", "c", "o", "n", "t", "e", "n", "t", "\"", ":", "\"", "o", "k", "\"", "}", " ",
  "x">>

\* a reply cut short: {"thoughts":"Hi","con
TextTruncated ==
  <<"{", "\"", "t", "h", "o", "u", "g", "h", "t", "s", "\"", ":", "\"", "H", "i", "\"", ",",
  "\"", "c", "o", "n">>

\* text that is no JSON: hello
TextPlain ==
  <<"h", "e", "l", "l", "o">>

\* a reply whose thoughts are empty: {"thoughts":"","content":"x"}
TextEmptyThoughts ==
  <<"{", "\"", "t", "h", "o", "u", "g", "h", "t", "s", "\"", ":", "\"", "\"", ",", "\"", "c",
  "o", "n", "t", "e", "n", "t", "\"", ":", "\"", "x", "\"", "}">>

\* text that parses to a value that is no object: null
TextNull ==
  <<"n", "u", "l", "l">>

StreamTexts ==
  {<<>>, TextReply, TextReplyThenText, TextTruncated, TextPlain, TextEmptyThoughts, TextNull}

\* where the [DONE] line comes: in a chunk of its own, after the last data
\* line in the same chunk, or not at all
Endings == {"own", "joined", "none"}

\* the chunks of the fragments deltas with the ending
StreamOf(deltas, ending) ==
  LET body == [k \in 1..Len(deltas) |-> <<DeltaLine(deltas[k]), SkipLine>>]
  IN IF ending = "own" THEN Append(body, <<DoneLine, SkipLine>>)
     ELSE IF ending = "joined"
     THEN [k \in 1..Len(body) |-> IF k = Len(body) THEN body[k] \o <<DoneLine, SkipLine>> ELSE body[k]]
     ELSE body

Streams ==
  UNION {{StreamOf(deltas, ending) : deltas \in Fragmentations(text, MaxDeltas)} :
           text \in StreamTexts, ending \in Endings}

InitStream ==
  /\ stream \in Streams
  /\ interactive \in BOOLEAN
  /\ registered \in BOOLEAN
  /\ accumulatedContent = <<>>
  /\ finalResponse = Null
  /\ parser = NewParser
  /\ thinkingDisplayed = FALSE
  /\ contentDisplayed = FALSE
  /\ settled = "pending"
  /\ settledValue = Undef
  /\ streamPc = "streaming"
  /\ calls = <<>>
  /\ completed = <<>>
  /\ ExecIdle
  /\ TplIdle
  /\ DecIdle

\* the session variables take the values of ss
Becomes(ss) ==
  /\ accumulatedContent' = ss.accumulatedContent
  /\ finalResponse' = ss.finalResponse
  /\ parser' = ss.parser
  /\ thinkingDisplayed' = ss.thinkingDisplayed
  /\ contentDisplayed' = ss.contentDisplayed
  /\ settled' = ss.settled
  /\ settledValue' = ss.settledValue
  /\ calls' = ss.calls
  /\ completed' = ss.completed

\* response.data.on('data', ...) with the next chunk
OnData ==
  /\ streamPc = "streaming"
  /\ stream # <<>>
  /\ \E ss \in {OnLines(Session, Head(stream), interactive, registered)} :
       /\ Becomes(ss)
       /\ streamPc' = IF ss.returns THEN "streaming" ELSE "hung"
  /\ stream' = Tail(stream)
  /\ UNCHANGED <<interactive, registered>>
  /\ UNCHANGED nonStreamVars

\* response.data.on('end', ...) after the last chunk
OnEnd ==
  /\ streamPc = "streaming"
  /\ stream = <<>>
  /\ \E ss \in {OnEndOfStream(Session)} : Becomes(ss)
  /\ streamPc' = "ended"
  /\ UNCHANGED <<stream, interactive, registered>>
  /\ UNCHANGED nonStreamVars

\* response.data.on('error', ...) at any point of the stream
OnError ==
  /\ streamPc = "streaming"
  /\ settled' = IF settled = "pending" THEN "rejected" ELSE settled
  /\ streamPc' = "ended"
  /\ UNCHANGED <<stream, interactive, registered, accumulatedContent, finalResponse, parser,
                 thinkingDisplayed, contentDisplayed, settledValue, calls, completed>>
  /\ UNCHANGED nonStreamVars

NextStream == OnData \/ OnEnd \/ OnError

SpecStream == InitStream /\ [][NextStream]_vars

(***************************************************************************)
(* The transport: the frame lines as one byte stream that arrives cut into *)
(* data events at any position                                             *)
(***************************************************************************)
\* largest number of data events the byte stream is cut into
MaxEvents == 2

\* 'data: '
DataPrefix == <<"d", "a", "t", "a", ":", " ">>

\* '[DONE]'
DoneText == <<"[", "D", "O", "N", "E", "]">>

\* the envelope around a content fragment: {"choices":[{"delta":{"content":"..."}}]}
EnvelopeOpen ==
  <<"{", "\"", "c", "h", "o", "i", "c", "e", "s", "\"", ":", "[", "{", "\"", "d", "e", "l",
  "t", "a", "\"", ":", "{", "\"", "c", "o", "n", "t", "e", "n", "t", "\"", ":", "\"">>

EnvelopeClose == <<"\"", "}", "}", "]", "}">>

\* the frame of a content fragment made of letters: its line and an empty line
Frame(delta) == DataPrefix \o EnvelopeOpen \o delta \o EnvelopeClose \o <<"\n", "\n">>

\* the content fragments of the frames, in frame order
FrameDeltas == << <<"a", "b">>, <<"c", "d">> >>

\* the bytes of the frames, with or without the frame of the sentinel
FrameBytes(ending) ==
  Frame(FrameDeltas[1]) \o Frame(FrameDeltas[2])
    \o (IF ending = "none" THEN <<>> ELSE DataPrefix \o DoneText \o <<"\n", "\n">>)

RECURSIVE SplitLines(_)
\* chunk.toString().split('\n')
SplitLines(cs) ==
  The({IF n = 0 THEN <<cs>>
       ELSE <<SubSeq(cs, 1, n - 1)>> \o SplitLines(SubSeq(cs, n + 1, Len(cs)))
         : n \in {FirstIn(cs, 1, {"\n"})}})

\* parsed.choices[0]?.delta?.content; a TypeError or no content is Undef
DeltaContent(parsed) ==
  LET choices == IF parsed.t \in {"object", "array"} THEN Get(parsed, "choices") ELSE Undef
      first == IF choices.t \in {"object", "array"} THEN Get(choices, "0") ELSE Undef
      delta == IF first.t \in {"object", "array"} THEN Get(first, "delta") ELSE Undef
  IN IF delta.t \in {"object", "array"} THEN Get(delta, "content") ELSE Undef

\* what the data handler makes of one line of a chunk
LineOf(line) ==
  IF ~StartsWith(line, 1, DataPrefix) THEN SkipLine
  ELSE IF SubSeq(line, 7, Len(line)) = DoneText THEN DoneLine
  ELSE The({IF content.t = "string" /\ Truthy(content) THEN DeltaLine(content.s) ELSE SkipLine
              : content \in {DeltaContent(JSONParse(SubSeq(line, 7, Len(line))))}})

\* the lines of a chunk as the data handler reads them
LinesOf(chunk) ==
  The({[k \in 1..Len(lines) |-> LineOf(lines[k])] : lines \in {SplitLines(chunk)}})

InitTransport ==
  /\ stream \in UNION {Fragmentations(FrameBytes(ending), MaxEvents) : ending \in {"own", "none"}}
  /\ interactive = FALSE
  /\ registered \in BOOLEAN
  /\ accumulatedContent = <<>>
  /\ finalResponse = Null
  /\ parser = NewParser
  /\ thinkingDisplayed = FALSE
  /\ contentDisplayed = FALSE
  /\ settled = "pending"
  /\ settledValue = Undef
  /\ streamPc = "streaming"
  /\ calls = <<>>
  /\ completed = <<>>
  /\ ExecIdle
  /\ TplIdle
  /\ DecIdle

\* response.data.on('data', ...) with the bytes of the next data event
OnDataBytes ==
  /\ streamPc = "streaming"
  /\ stream # <<>>
  /\ \E ss \in {OnLines(Session, LinesOf(Head(stream)), interactive, registered)} :
       /\ Becomes(ss)
       /\ streamPc' = IF ss.returns THEN "streaming" ELSE "hung"
  /\ stream' = Tail(stream)
  /\ UNCHANGED <<interactive, registered>>
  /\ UNCHANGED nonStreamVars

NextTransport == OnDataBytes \/ OnEnd \/ OnError

SpecTransport == InitTransport /\ [][NextTransport]_vars

(***************************************************************************)
(* Properties of executeTools                                              *)
(***************************************************************************)
BatchIdSeq == [i \in 1..Len(tools) |-> tools[i].id]

\* call a references call b: a string of a's arguments holds a marker whose
\* path starts with b's id
References(a, b) == \E i \in 1..Len(edges) : edges[i][1] = a /\ b \in edges[i][2]

RECURSIVE ReachableFrom(_, _)
\* the ids reachable from the set seen along at most n more reference edges
ReachableFrom(seen, n) ==
  IF n = 0 THEN seen
  ELSE ReachableFrom(seen \cup UNION {edges[i][2] : i \in {j \in 1..Len(edges) : edges[j][1] \in seen}},
                     n - 1)

\* some call reaches itself along one or more reference edges
Cyclic ==
  \E i \in 1..Len(edges) : edges[i][1] \in ReachableFrom(edges[i][2], Len(edges))

\* the order in which the run processes the calls
ChosenOrder == IF pc = "fallback" \/ (pc = "done" /\ order = <<>>) THEN BatchIdSeq ELSE order

TraceIds == [k \in 1..Len(trace) |-> trace[k].id]

IsPrefix(p, q) == Len(p) <= Len(q) /\ \A k \in 1..Len(p) : p[k] = q[k]

\* C1: for a batch whose dependency graph is acyclic, buildDependencyGraph
\* returns an order that holds every call once and places every call after
\* all calls it references, and executeTools processes the calls in that order.
C1_TopologicalOrder ==
  (~Cyclic /\ pc # "start") =>
    /\ pc \in {"graph", "done"}
    /\ Len(order) = Len(tools)
    /\ \A i \in 1..Len(order) :
         \A b \in ToolIds(tools) :
           References(order[i], b) => \E j \in 1..(i - 1) : order[j] = b
    /\ IsPrefix(TraceIds, order)
    /\ \A k \in 1..Len(trace) : trace[k].strategy = "graph"
    /\ (pc = "done" => TraceIds = order)

\* a finished run whose order differs from the batch order because of references
C1_Witness ==
  /\ pc = "done"
  /\ ~Cyclic
  /\ Len(tools) = 3
  /\ TraceIds = <<"C", "B", "A">>
  /\ References("A", "B") /\ References("B", "C")

\* C2: for a batch whose dependency graph has a cycle, executeTools runs the
\* calls in original batch order and its output holds one result-or-error
\* entry for every call of the batch.
C2_CycleFallsBack ==
  (Cyclic /\ pc # "start") =>
    /\ pc \in {"fallback", "done"}
    /\ IsPrefix(TraceIds, BatchIdSeq)
    /\ Len(results) = Len(trace)
    /\ \A k \in 1..Len(results) :
         /\ results[k].id = tools[k].id
         /\ results[k].hasResult \/ results[k].hasError
    /\ (pc = "done" => Len(results) = Len(tools))

\* a finished run of the two-cycle A -> B -> A
C2_Witness ==
  /\ pc = "done"
  /\ Len(tools) = 2
  /\ References("A", "B") /\ References("B", "A")
  /\ Len(results) = 2

\* C3: whatever the outcome of each call (validation failure, unknown tool,
\* exception, success), every call of the batch is processed and the output
\* holds exactly one entry per call.
C3_FailureIsolation ==
  /\ Len(results) = Len(trace)
  /\ \A k \in 1..Len(results) : results[k].id = trace[k].id
  /\ \A j, k \in 1..Len(results) : results[j].id = results[k].id => j = k
  /\ pc = "done" =>
       /\ Len(trace) = Len(tools)
       /\ \A i \in 1..Len(tools) : \E k \in 1..Len(results) : results[k].id = tools[i].id

\* a finished run in which an exception, an unknown tool and a success follow
\* each other
C3_Witness ==
  /\ pc = "done"
  /\ Len(trace) = 3
  /\ trace[1].invoked /\ IsThrown(trace[1].outcome) /\ results[1].hasError
  /\ ~trace[2].invoked /\ results[2].hasError
  /\ trace[3].invoked /\ results[3].hasResult /\ results[3].result = trace[3].outcome

\* the implementation of the call of trace record k ran and returned a value
Returned(k) == trace[k].invoked /\ ~IsThrown(trace[k].outcome)

\* processing the call of trace record k raised: the template engine rejected
\* an argument, or the implementation threw
Raised(k) == IsThrown(trace[k].args) \/ (trace[k].invoked /\ IsThrown(trace[k].outcome))

RaisedMessage(k) ==
  IF IsThrown(trace[k].args) THEN ThrownMessage(trace[k].args) ELSE ThrownMessage(trace[k].outcome)

\* C4: the template context holds an entry only for a call whose
\* implementation returned, the entry is the returned value, and no entry
\* exists for a call that ended in a validation failure, an unknown-tool
\* error or an exception, whatever the exception's message.
C4_ContextOnlyOnSuccess ==
  /\ Cardinality(Keys(templateContext.o)) = Len(templateContext.o)
  /\ \A k \in 1..Len(trace) :
       IF Returned(k) /\ results[k].hasResult
       THEN Lookup(templateContext.o, trace[k].id) = trace[k].outcome
       ELSE ~HasKey(templateContext.o, trace[k].id)

\* C5: the result of a call that completed successfully is in the context in
\* which every later call of the chosen order is processed, and the context in
\* which a call is processed holds no entry for a call scheduled later.
C5_ContextOrdering ==
  \A k \in 1..Len(trace) :
    /\ \A j \in 1..(k - 1) :
         (Returned(j) /\ results[j].hasResult) =>
           /\ HasKey(trace[k].context.o, trace[j].id)
           /\ Lookup(trace[k].context.o, trace[j].id) = trace[j].outcome
    /\ \A j \in (k + 1)..Len(ChosenOrder) : ~HasKey(trace[k].context.o, ChosenOrder[j])

\* the third call of a dependency order that differs from the batch order is
\* processed with the results of the two calls before it in the context
C5_Witness ==
  /\ Len(trace) = 3
  /\ trace[3].strategy = "graph"
  /\ TraceIds # BatchIdSeq
  /\ Returned(1) /\ Returned(2)
  /\ Keys(trace[3].context.o) = {trace[1].id, trace[2].id}

\* in a batch of three, x2 references the result of x1, x3 references the
\* result of x2 and x1 references nothing
IsChain(x1, x2, x3) ==
  /\ Len(tools) = 3
  /\ ToolIds(tools) = {x1, x2, x3}
  /\ ToolMapGet(x1).name = "write_file" /\ ToolMapGet(x1).arguments = PlainArgs
  /\ ToolMapGet(x2).name = "write_file" /\ ToolMapGet(x2).arguments = RefArgs(x1)
  /\ ToolMapGet(x3).name = "write_file" /\ ToolMapGet(x3).arguments = RefArgs(x2)

\* C6: a chain of three calls is invoked in the order 1, 2, 3 whatever the
\* batch order, and the values substituted into a dependent call are the
\* fields of the value that the call it references returned in this run.
C6_ChainOrderAndValues ==
  \A x1, x2, x3 \in ToolIds(tools) :
    IsChain(x1, x2, x3) =>
      /\ IsPrefix(TraceIds, <<x1, x2, x3>>)
      /\ \A k \in 1..Len(trace) : trace[k].invoked
      /\ \A k \in 2..Len(trace) :
           (Returned(k - 1) /\ results[k - 1].hasResult) =>
             /\ Get(trace[k].args, "file_path") = Get(trace[k - 1].outcome, "path")
             /\ Get(trace[k].args, "mode") = Get(trace[k - 1].outcome, "count")
             /\ Get(trace[k].args, "content") =
                  StrV(<<"n", "=">> \o Get(trace[k - 1].outcome, "count").s)

\* the chain C -> B -> A given in the batch order A, B, C ran to its end with
\* every call returning
C6_Witness ==
  /\ pc = "done"
  /\ IsChain("C", "B", "A")
  /\ TraceIds = <<"C", "B", "A">>
  /\ Returned(1) /\ Returned(2) /\ Returned(3)
  /\ Get(trace[3].args, "file_path") = StrV(<<"p", "B">>)

\* the arguments the system prompt documents as required for each tool kind
RequiredArgs(toolName) ==
  CASE toolName = "execute_shell_command" -> {"command"}
    [] toolName \in {"read_file", "delete_file", "get_file_info"} -> {"file_path"}
    [] toolName \in {"write_file", "append_to_file"} -> {"file_path", "content"}
    [] toolName \in {"list_directory", "create_directory"} -> {"directory_path"}
    [] toolName \in {"copy_files", "move_files"} -> {"source", "destination"}
    [] toolName = "search_files" -> {"search_path", "pattern"}
    [] toolName = "find_and_replace" -> {"search_path", "search_text", "replace_text"}
    [] toolName = "ripgrep_search" -> {"pattern"}
    [] toolName = "todo_write" -> {"todos"}
    [] toolName \in {"browser_navigate", "http_fetch"} -> {"url"}
    [] toolName = "browser_interact" -> {"actions"}
    [] OTHER -> {}

\* the resolved arguments of trace record k lack a required argument
LacksRequired(k) ==
  /\ ~IsThrown(trace[k].args)
  /\ \E a \in RequiredArgs(ToolMapGet(trace[k].id).name) : Get(trace[k].args, a).t = "undefined"

\* C7: when the resolved arguments of a call lack a required argument of its
\* tool kind, the implementation is not invoked, the output gets an {id, error}
\* entry, the context gets no entry for the id, and the next call is processed.
C7_MissingArgumentNotInvoked ==
  \A k \in 1..Len(trace) :
    LacksRequired(k) =>
      /\ ~trace[k].invoked
      /\ results[k].id = trace[k].id
      /\ results[k].hasError /\ ~results[k].hasResult /\ results[k].error # ""
      /\ ~HasKey(templateContext.o, trace[k].id)
      /\ (pc = "done" => Len(trace) = Len(ChosenOrder))

\* a write_file without file_path was rejected and the call after it was invoked
C7_Witness ==
  /\ Len(trace) >= 2
  /\ trace[1].strategy = "graph"
  /\ LacksRequired(1)
  /\ ToolMapGet(trace[1].id).name = "write_file"
  /\ results[1].error = "file_path and content are required"
  /\ trace[2].invoked

\* C8: when processing a call raises, whatever the message, the output entry
\* of the call holds the message as error and no result, the context gets no
\* entry for the id, and a later call whose argument is exactly the marker
\* {{id.path}} is invoked with the literal marker as that argument.
C8_ExceptionRecordedAsError ==
  \A k \in 1..Len(trace) :
    Raised(k) =>
      /\ results[k] = ErrorEntry(trace[k].id, RaisedMessage(k))
      /\ ~HasKey(templateContext.o, trace[k].id)
      /\ \A j \in (k + 1)..Len(trace) :
           Get(ToolMapGet(trace[j].id).arguments, "file_path") = StrV(Marker(trace[k].id, PathKey, <<>>))
             => /\ trace[j].invoked
                /\ Get(trace[j].args, "file_path") = StrV(Marker(trace[k].id, PathKey, <<>>))

\* C9: every output entry has exactly one of result and error, and a present
\* result is the value the implementation of that call returned.
C9_ExactlyOneOfResultAndError ==
  \A k \in 1..Len(results) :
    /\ results[k].hasResult # results[k].hasError
    /\ results[k].hasResult => (Returned(k) /\ results[k].result = trace[k].outcome)

(***************************************************************************)
(* Properties of the template resolver                                     *)
(***************************************************************************)
RECURSIVE ValueAt(_, _)
\* the value the segments lead to from v, Undef when a segment does not resolve
ValueAt(segments, v) ==
  IF segments = <<>> THEN v
  ELSE IF v.t \notin {"object", "array"} \/ ~HasKey(v.o, Str(Head(segments))) THEN Undef
  ELSE ValueAt(Tail(segments), Lookup(v.o, Str(Head(segments))))

\* C10: when an argument string is exactly one marker and every segment of
\* its path resolves in the context, processArguments returns the referenced
\* value itself, with its type, in place of the string.
C10_WholeValuePreservesType ==
  (tplPc = "resolved" /\ IsWholeMarker /\ ValueAt(tplPath, tplContext) # Undef) =>
    /\ Get(tplOut, "arg") = ValueAt(tplPath, tplContext)
    /\ Get(Get(tplOut, "list"), "0") = ValueAt(tplPath, tplContext)

\* "{{A.count}}" against {A: {count: 5, ...}} gave the number 5
C10_Witness ==
  /\ tplPc = "resolved"
  /\ IsWholeMarker
  /\ tplForm.inner = 0
  /\ tplPath = << <<"A">>, CountKey >>
  /\ Get(tplContext, "A").t = "object"
  /\ Get(tplOut, "arg") = Num(<<"5">>)

\* the argument string as written and as returned for an unresolved marker
Original == StrV(TemplateString(tplPath, tplForm))

\* C11: when an argument string is exactly one marker and its path fails to
\* resolve at some segment (the id is missing, a field is missing, or a value
\* on the way is null, undefined or not an object), processArguments returns
\* the original string with its markers and raises nothing.
C11_LenientFallback ==
  (tplPc = "resolved" /\ IsWholeMarker /\ ValueAt(tplPath, tplContext) = Undef) =>
    /\ ~IsThrown(tplOut)
    /\ Get(tplOut, "arg") = Original
    /\ Get(Get(tplOut, "list"), "0") = Original

IsScalar(v) == v.t \in {"string", "number", "boolean"}

\* the suffix of the argument string is the second marker
SuffixIsMarker == tplForm.suffix = <<";">> \o Marker("A", PathKey, <<>>)

\* the value the second marker refers to
SuffixValue == ValueAt(<< <<"A">>, PathKey >>, tplContext)

\* the argument string with the text of the scalar values in place of its markers
Interpolated ==
  tplForm.prefix \o Spaces(tplForm.lead) \o ValueAt(tplPath, tplContext).s \o Spaces(tplForm.trail)
    \o (IF SuffixIsMarker THEN <<";">> \o SuffixValue.s ELSE tplForm.suffix)

WrittenPaths == {JoinDot(tplPath)} \cup (IF SuffixIsMarker THEN {JoinDot(<< <<"A">>, PathKey >>)} ELSE {})

\* C13: every extractVariables call on the argument object returns exactly
\* the distinct variable paths written in the markers of its nested strings,
\* trimmed of the spaces around them, each once, whatever was called before,
\* and leaves the argument object as it was.
C13_ExtractVariablesExact ==
  tplScans > 0 =>
    /\ {tplFound[k] : k \in 1..Len(tplFound)} = WrittenPaths
    /\ Len(tplFound) = Cardinality(WrittenPaths)
    /\ tplArgs = TemplateArgs(tplPath, tplForm)

\* the second scan of "{{ A.count }};{{A.path}}" returned A.count and A.path
C13_Witness ==
  /\ tplScans = 2
  /\ tplPc = "resolved"
  /\ tplForm.inner = 1
  /\ SuffixIsMarker
  /\ tplFound = <<JoinDot(<< <<"A">>, CountKey >>), JoinDot(<< <<"A">>, PathKey >>)>>

(***************************************************************************)
(* Properties of the parser                                                *)
(***************************************************************************)
\* the whole text of the fragments, and the text fed by the first n calls
DecText == Concat(decChunks)

FedText(n) == Concat(SubSeq(decChunks, 1, n))

\* the texts that are one well-formed object whose scan ends
WellFormedObjects == {DocExample, DocTwoFields, DocEscapedQuote, DocEscapedBackslash, DocNested}

\* the <<name, value>> pairs of the string-valued top-level fields of an object
StringFields(obj) == SelectSeq(obj.o, LAMBDA pr : pr[2].t = "string")

\* C14: once every fragment of a well-formed object is fed, the updates
\* returned are one field update per string-valued top-level field, in the
\* order of the fields, followed by one complete update with the parsed object.
C14_FieldsThenComplete ==
  (decPc = "feeding" /\ decFed = Len(decChunks) /\ DecText \in WellFormedObjects) =>
    LET obj == JSONParse(DecText)
        fields == StringFields(obj)
    IN /\ Len(decUpdates) = Len(fields) + 1
       /\ \A k \in 1..Len(fields) :
            /\ decUpdates[k].update.type = "field"
            /\ decUpdates[k].update.field = fields[k][1]
       /\ decUpdates[Len(decUpdates)].update.type = "complete"
       /\ decUpdates[Len(decUpdates)].update.data = obj

\* C15: the value of every field update is the unescaped content of the
\* string of that field: the value the strict parse of the text gives it.
C15_FieldValueUnescaped ==
  (DecText \in WellFormedObjects \ {DocNested}) =>
    \A k \in 1..Len(decUpdates) :
      decUpdates[k].update.type = "field" =>
        StrV(decUpdates[k].update.value) = Get(JSONParse(DecText), decUpdates[k].update.field)

\* the updates of type complete, as indexes of decUpdates
Completes == {k \in 1..Len(decUpdates) : decUpdates[k].update.type = "complete"}

\* the index in the text of the brace that the complete update k closed on:
\* what was fed by then, less what the update left in the buffer
CompleteEnd(k) == Len(FedText(decUpdates[k].call)) - Len(decUpdates[k].update.after.buffer)

\* the index of the brace of the complete update before k, or 0
PreviousEnd(k) ==
  IF \E j \in Completes : j < k
  THEN CompleteEnd(CHOOSE j \in Completes : j < k /\ \A i \in Completes : i < k => i <= j)
  ELSE 0

\* the first and the second object of DocTwoObjects
FirstObject == SubSeq(DocTwoObjects, 1, 9)

SecondObject == SubSeq(DocTwoObjects, 10, 18)

\* the values of the complete updates, in the order of the updates
RECURSIVE CompleteData(_)
CompleteData(updates) ==
  IF updates = <<>> THEN <<>>
  ELSE IF Head(updates).update.type = "complete"
  THEN <<Head(updates).update.data>> \o CompleteData(Tail(updates))
  ELSE CompleteData(Tail(updates))

\* C16: a complete update carries the parsed value of the object that the
\* brace closed, leaves every counter at 0, every flag false and the
\* completed fields empty, and keeps in the buffer exactly the text after the
\* brace; once the text of an object is fed it is reported by one complete
\* update, and of two objects back to back each is reported by its own.
C16_CompleteResetsAndContinues ==
  /\ \A k \in Completes :
       LET u == decUpdates[k].update
           fed == FedText(decUpdates[k].call)
       IN /\ CompleteEnd(k) > PreviousEnd(k)
          /\ fed[CompleteEnd(k)] = "}"
          /\ u.data = JSONParse(SubSeq(fed, PreviousEnd(k) + 1, CompleteEnd(k)))
          /\ u.after = [NewParser EXCEPT !.buffer = SubSeq(fed, CompleteEnd(k) + 1, Len(fed))]
  /\ (decPc = "feeding" /\ decFed = Len(decChunks)) =>
       /\ DecText \in WellFormedObjects => CompleteData(decUpdates) = <<JSONParse(DecText)>>
       /\ DecText = DocTwoObjects =>
            CompleteData(decUpdates) = <<JSONParse(FirstObject), JSONParse(SecondObject)>>

\* C17: every addChunk call returns, and a balanced text that does not parse
\* gives no update and stays in the buffer.
C17_AddChunkAlwaysReturns ==
  /\ decPc # "hung"
  /\ (DecText = DocUnparsable /\ decFed = Len(decChunks)) =>
       /\ decUpdates = <<>>
       /\ decParser.buffer = DecText

(***************************************************************************)
(* Properties of handleStreamingResponse                                   *)
(***************************************************************************)
CallsOf(name) == {k \in 1..Len(calls) : calls[k].callback = name}

\* C18: in one streaming session, whatever the chunks are and with or
\* without live partial display, onThoughts is invoked at most once and
\* onContent is invoked at most once, however often the decoder reports or
\* scans the field again.
C18_CallbacksAtMostOnce ==
  /\ Cardinality(CallsOf("onThoughts")) <= 1
  /\ Cardinality(CallsOf("onContent")) <= 1

\* a field was shown from the partial text, and the decoder reported a
\* completed field in a later chunk
C18_Witness ==
  /\ interactive
  /\ \E i \in CallsOf("onThoughts") \cup CallsOf("onContent") :
       /\ calls[i].partial
       /\ \E j \in CallsOf("onFieldComplete") :
            /\ j > i
            /\ calls[j].field = (IF calls[i].callback = "onThoughts" THEN "thoughts" ELSE "content")

\* C19: if the decoder reported a complete object at any point of the
\* session, the value the session resolves with at the end of the stream
\* ([DONE] line or transport end) is that object, whatever text came after it.
C19_CompleteObjectIsResolved ==
  (settled = "resolved" /\ completed # <<>>) => settledValue = completed[Len(completed)]

HasNote(v) == v.t = "object" /\ HasKey(v.o, "reasoning")

\* C20: whenever the stream ends ([DONE] line or transport end) without a
\* complete object and the accumulated text does not parse, the case of no
\* text at all included, the session resolves with a synthetic object that
\* carries the captured field values (or the raw text as content) and a note
\* that the stream could not be parsed.
C20_DegradedResultHasNote ==
  (settled = "resolved" /\ completed = <<>> /\ IsThrown(JSONParse(accumulatedContent)))
    => /\ HasNote(settledValue)
       /\ Get(settledValue, "reasoning") \in {StrV(NotValidNote), StrV(CouldNotParseNote)}
       /\ Get(settledValue, "thoughts") = StrV(CompletedValue(parser, "thoughts"))
       /\ Get(settledValue, "content") = StrV(OrElse(CompletedValue(parser, "content"), accumulatedContent))

\* C21: for every sequence of chunks that ends with the [DONE] line or with
\* the end of the transport, whatever the chunks hold, the session resolves,
\* with a value that is an object and not null, and neither rejects nor stays
\* unsettled; a session is rejected only by an 'error' event.
C21_SessionAlwaysResolves ==
  /\ streamPc # "hung"
  /\ (streamPc = "ended" /\ settled # "rejected") =>
       /\ settled = "resolved"
       /\ settledValue.t = "object"

\* the call of trace record k
TraceTool(k) == ToolMapGet(trace[k].id)

\* the effects of the default case on the call of trace record k
UnknownToolEntry(k) ==
  /\ ~trace[k].invoked
  /\ results[k] = ErrorEntry(trace[k].id, "Unknown tool: " \o TraceTool(k).name)
  /\ ~HasKey(templateContext.o, trace[k].id)
  /\ (pc = "done" => Len(trace) = Len(tools))

C23_BothStrategiesResolve ==
  \A k \in 1..Len(trace) :
    trace[k].args = processArguments(TraceTool(k).arguments, trace[k].context)

\* C24: one run uses one strategy from start to end: either the
\* graph-ordered loop processes the calls, or the dependency order fails
\* before any call was processed and the fallback loop does; no run processes
\* calls under both, so every call is processed (and its implementation
\* invoked) at most once and no id has two entries in the output.
C24_OneStrategyPerRun ==
  /\ \A j, k \in 1..Len(trace) : trace[j].strategy = trace[k].strategy
  /\ \A j, k \in 1..Len(trace) : trace[j].id = trace[k].id => j = k
  /\ \A j, k \in 1..Len(results) : results[j].id = results[k].id => j = k
  /\ pc = "fallback" => order = <<>> /\ \A k \in 1..Len(trace) : trace[k].strategy = "fallback"
  /\ pc = "graph" => \A k \in 1..Len(trace) : trace[k].strategy = "graph"

\* a finished graph-ordered run in which an implementation threw and the
\* calls after it were still processed by the graph-ordered loop
C24_Witness ==
  /\ pc = "done"
  /\ Len(trace) = 3
  /\ trace[1].strategy = "graph"
  /\ trace[1].invoked /\ IsThrown(trace[1].outcome)
  /\ trace[3].strategy = "graph" /\ trace[3].invoked

\* call a references another call b of the batch
ReferencesOther(a, b) == a # b /\ References(a, b)

RECURSIVE ReachableViaOthers(_, _)
\* the ids reachable from the set seen along at most n more references to
\* other calls
ReachableViaOthers(seen, n) ==
  IF n = 0 THEN seen
  ELSE ReachableViaOthers(seen \cup {b \in ToolIds(tools) : \E a \in seen : ReferencesOther(a, b)},
                          n - 1)

\* the id lies on a cycle of references between calls of the batch
OnCycleOfOthers(id) ==
  id \in ReachableViaOthers({b \in ToolIds(tools) : ReferencesOther(id, b)}, Len(tools))

\* the graph whose edges lead to other calls of the batch has a cycle
CyclicAmongOthers == \E id \in ToolIds(tools) : OnCycleOfOthers(id)

\* some call of the batch references itself
SelfReferencing(id) ==
  \E i \in 1..Len(tools) : tools[i].id = id /\ id \in ReferencedIds(tools[i])

\* C25: the dependencies of a call are the ids of other calls of the batch
\* that start a variable path of its arguments: ids outside the batch and the
\* call's own id make no edge, so a batch whose only in-batch references are
\* references of a call to itself is not cyclic and runs in graph order.
C25_SelfReferenceMakesNoEdge ==
  pc # "start" =>
    /\ \A i \in 1..Len(edges) :
         edges[i][2] = (ReferencedIds(ToolMapGet(edges[i][1])) \cap ToolIds(tools)) \ {edges[i][1]}
    /\ (~CyclicAmongOthers =>
          /\ pc \in {"graph", "done"}
          /\ Len(order) = Len(tools))

\* C26: buildDependencyGraph raises its error exactly for the batches whose
\* dependency graph (edges to other calls of the batch) has a cycle, and the
\* id in the message is the id of a call on such a cycle.
C26_ErrorIffCycle ==
  pc # "start" =>
    /\ buildDependencyGraph(tools).threw <=> CyclicAmongOthers
    /\ buildDependencyGraph(tools).threw =>
         \E id \in ToolIds(tools) :
           /\ OnCycleOfOthers(id)
           /\ buildDependencyGraph(tools).msg = CycleMessage(id)

\* the ids a call depends on, in the order in which its arguments name them
DependencyIds(id) ==
  LET deps == Dependencies(tools)[id]
  IN [k \in 1..Len(deps) |-> FirstSegment(deps[k])]

RECURSIVE PostOrder(_, _)
\* the depth-first post-order of an acyclic batch: every id of ids that acc
\* lacks is appended after the post-order of its dependencies
PostOrder(ids, acc) ==
  IF ids = <<>> THEN acc
  ELSE IF \E k \in 1..Len(acc) : acc[k] = Head(ids) THEN PostOrder(Tail(ids), acc)
  ELSE PostOrder(Tail(ids), Append(PostOrder(DependencyIds(Head(ids)), acc), Head(ids)))

\* C27: the execution order is the depth-first post-order that visits the
\* calls in batch order and a call's dependencies before the call; it holds
\* every batch id exactly once, and it is the batch order when no call
\* references a call of the batch.
C27_DepthFirstPostOrder ==
  (pc = "graph" \/ (pc = "done" /\ order # <<>>)) =>
    /\ order = PostOrder(BatchIdSeq, <<>>)
    /\ order = buildDependencyGraph(tools).order
    /\ Len(order) = Len(tools)
    /\ \A id \in ToolIds(tools) : \E k \in 1..Len(order) : order[k] = id
    /\ (\A a, b \in ToolIds(tools) : ~References(a, b)) => order = BatchIdSeq

\* a finished run of a batch with several topological orders, of which the
\* post-order that starts at the first call was taken
C27_Witness ==
  /\ pc = "done"
  /\ Len(tools) = 3
  /\ References("A", "C")
  /\ \A b \in ToolIds(tools) : ~References("B", b) /\ ~References("C", b)
  /\ order = <<"C", "A", "B">>
  /\ TraceIds = order

\* the argument string is one marker with nothing but spaces around it
IsTrimmedWholeMarker == tplForm.prefix = <<>> /\ tplForm.suffix = <<>>

\* C28: whole-value substitution is selected by the trimmed content of the
\* string: when the argument is one marker surrounded only by leading or
\* trailing spaces and its path resolves, processArguments returns the
\* referenced value with its type, not a rendered string.
C28_WholeValueByTrimmedContent ==
  (tplPc = "resolved" /\ IsTrimmedWholeMarker /\ ValueAt(tplPath, tplContext) # Undef) =>
    /\ Get(tplOut, "arg") = ValueAt(tplPath, tplContext)
    /\ Get(Get(tplOut, "list"), "0") = ValueAt(tplPath, tplContext)

\* the names of the string-valued top-level fields of an object
StringFieldNames(obj) == {StringFields(obj)[i][1] : i \in 1..Len(StringFields(obj))}

\* C29: a field update is emitted only for a string at brace depth 1 and
\* array depth 0: whatever the fragmentation of the text of one object,
\* every field update names a string-valued top-level field of the object,
\* never a string inside a nested object or array.
C29_NoFieldFromNestedValue ==
  DecText \in WellFormedObjects \cup {DocEmptyValue} =>
    \A k \in 1..Len(decUpdates) :
      decUpdates[k].update.type = "field" =>
        decUpdates[k].update.field \in StringFieldNames(JSONParse(DecText))

\* the field updates emitted since the last complete update before update k
SinceReset(k) ==
  {j \in 1..k : /\ decUpdates[j].update.type = "field"
                /\ \A c \in Completes : ~(j < c /\ c < k)}

\* C30: between two resets at most one field update is emitted per field
\* name: a field update leaves its field marked as emitted, whatever the
\* value, and no later update before the next reset names the field again.
C30_OneFieldUpdatePerName ==
  \A k \in 1..Len(decUpdates) :
    decUpdates[k].update.type = "field" =>
      /\ FieldCompleted(decUpdates[k].update.after, decUpdates[k].update.field)
      /\ \A j \in SinceReset(k) : decUpdates[j].update.field = decUpdates[k].update.field => j = k

\* the part of the value of the field name that the buffer holds: up to its
\* terminating quote, or all that arrived when the quote is not there yet
ArrivedValue(buffer, name) ==
  LET start == FieldValueStart(buffer, name)
      whole == extractStringValue(buffer, start)
  IN IF whole.found THEN whole.value ELSE SubSeq(buffer, start, Len(buffer))

\* C31: getPartialContent returns what has arrived of the value of the
\* thoughts field, or else of the content field, also while the terminating
\* quote of the value is missing, and the parser is left as it was.
C31_PartialBeforeTerminatingQuote ==
  /\ FieldValueStart(parser.buffer, ThoughtsName) # 0 =>
       getPartialContent(parser) =
         [type |-> "thoughts", content |-> ArrivedValue(parser.buffer, ThoughtsName)]
  /\ (FieldValueStart(parser.buffer, ThoughtsName) = 0
        /\ FieldValueStart(parser.buffer, ContentName) # 0) =>
       getPartialContent(parser) =
         [type |-> "content", content |-> ArrivedValue(parser.buffer, ContentName)]
  /\ ShowPartial(Session, TRUE, TRUE).parser = parser

\* the object of DocPrefixed, from its opening brace
PrefixedObject == SubSeq(DocPrefixed, 2, Len(DocPrefixed))

\* C32: the strict parse at the closing brace of the top-level object takes
\* the text from the object's opening brace, so text other than whitespace
\* before the brace does not keep a well-formed object from its complete
\* update.
C32_CompleteDespitePrefix ==
  (decPc = "feeding" /\ decFed = Len(decChunks) /\ DecText = DocPrefixed) =>
    CompleteData(decUpdates) = <<JSONParse(PrefixedObject)>>

\* the onFieldComplete calls for the field name, as indexes of calls
FieldCallsOf(name) ==
  {k \in 1..Len(calls) : calls[k].callback = "onFieldComplete" /\ calls[k].field = name}

\* the callback was invoked with a partial value at index k of calls
PartialCall(name, k) == calls[k].callback = name /\ calls[k].partial

\* C33: with live partial display a partial value given to onThoughts or
\* onContent does not mark the field as fired: the flag stays unset while only
\* partial values were given, and when the field is completed afterwards the
\* callback is invoked once more with the completed value and without the
\* partial marker.
C33_PartialLeavesFieldUnfired ==
  /\ (\A k \in CallsOf("onThoughts") : calls[k].partial) => ~thinkingDisplayed
  /\ (\A k \in CallsOf("onContent") : calls[k].partial) => ~contentDisplayed
  /\ \A k \in FieldCallsOf("thoughts") :
       (\E j \in 1..(k - 1) : PartialCall("onThoughts", j)) =>
         \E i \in CallsOf("onThoughts") : i > k /\ ~calls[i].partial
  /\ \A k \in FieldCallsOf("content") :
       (\E j \in 1..(k - 1) : PartialCall("onContent", j)) =>
         \E i \in CallsOf("onContent") : i > k /\ ~calls[i].partial

\* the ids of the progress summaries, in the order of their emission
ProgressIds == [k \in 1..Len(progress) |-> progress[k].id]

\* C34: executeTools emits exactly one progress summary for every call it
\* processes, completed or failed: the summaries name the processed calls in
\* the order in which they were processed.
C34_OneSummaryPerCall ==
  ProgressIds = TraceIds

\* what an update tells its receiver
Event(u) == [type |-> u.type, field |-> u.field, value |-> u.value, data |-> u.data]

\* the events of the updates returned so far, in order
EventsSoFar == [k \in 1..Len(decUpdates) |-> Event(decUpdates[k].update)]

\* the whole text fed to a new parser as one fragment
OneFragment == addChunk(NewParser, DecText)

\* C35: however the text is cut into fragments, the events returned by the
\* successive addChunk calls are the events returned for the whole text fed as
\* one fragment, and after the last fragment the buffer, the depth counters
\* and the inside-string flag are those of the one-fragment scan.
C35_ChunkingIndependence ==
  (decPc = "feeding" /\ decFed = Len(decChunks) /\ OneFragment.returns) =>
    /\ EventsSoFar = [k \in 1..Len(OneFragment.updates) |-> Event(OneFragment.updates[k])]
    /\ decParser.buffer = OneFragment.parser.buffer
    /\ decParser.bracketCount = OneFragment.parser.bracketCount
    /\ decParser.arrayCount = OneFragment.parser.arrayCount
    /\ decParser.inString = OneFragment.parser.inString

\* C36: every addChunk call terminates: whatever the buffer holds and
\* whatever the next fragment is, the scan of the call with that fragment
\* passes the end of the buffer and the call returns its updates.
C36_AddChunkTerminates ==
  (decPc = "feeding" /\ decFed < Len(decChunks)) =>
    addChunk(decParser, decChunks[decFed + 1]).returns

\* C37: in every state of the parser, after any sequence of fragments, the
\* counter of unmatched braces and the counter of unmatched brackets are not
\* negative, so that a closing brace or bracket that matches nothing cannot
\* shift the depth at which a later object is read.
C37_CountersNotNegative ==
  /\ decParser.bracketCount >= 0
  /\ decParser.arrayCount >= 0
  /\ \A k \in 1..Len(decUpdates) :
       decUpdates[k].update.after.bracketCount >= 0 /\ decUpdates[k].update.after.arrayCount >= 0

\* the content fragments of all frames, joined in frame order
SentText == FrameDeltas[1] \o FrameDeltas[2]

\* C38: however the transport cuts the bytes into data events, the text the
\* session accumulates is made of the content fragments of the frames in
\* frame order, and once every data event was handled it is the text of all
\* frames sent before the sentinel: nothing lost, doubled or reordered.
C38_AccumulatesEveryFrame ==
  /\ IsPrefix(accumulatedContent, SentText)
  /\ stream = <<>> => accumulatedContent = SentText

\* the implementation of the call of trace record k returned an object that
\* reports its own failure
ReportedFailure(k) ==
  /\ trace[k].invoked
  /\ trace[k].outcome.t = "object"
  /\ Get(trace[k].outcome, "success") = Bool(FALSE)
  /\ Get(trace[k].outcome, "error").t = "string"

\* C39: a call whose implementation returns normally with an object that
\* reports its own failure counts as completed: its output entry holds that
\* object as result and no error, and the context holds the object under the
\* id of the call.
C39_ReportedFailureIsResult ==
  \A k \in 1..Len(trace) :
    ReportedFailure(k) =>
      /\ results[k] = ResultEntry(trace[k].id, trace[k].outcome)
      /\ Get(templateContext, trace[k].id) = trace[k].outcome

\* the template engine rejected an argument of the call of trace record k
ResolutionRaised(k) == trace[k].strategy = "graph" /\ IsThrown(trace[k].args)

\* C40: when the resolution of a call's arguments raises in the
\* graph-ordered loop, the call gets the entry {id, error: message}, its
\* implementation is not invoked, the context gets no entry for it, and the
\* loop goes on with the next call of the order without a change to the
\* fallback.
C40_ResolutionErrorIsIsolated ==
  \A k \in 1..Len(trace) :
    ResolutionRaised(k) =>
      /\ results[k] = ErrorEntry(trace[k].id, ThrownMessage(trace[k].args))
      /\ ~trace[k].invoked
      /\ ~HasKey(templateContext.o, trace[k].id)
      /\ pc \in {"graph", "done"}
      /\ IsPrefix(TraceIds, order)
      /\ pc = "done" => TraceIds = order
      /\ \A j \in 1..Len(trace) : trace[j].strategy = "graph"

\* a finished graph-ordered run of three calls whose first call had a
\* template the engine rejected and whose later calls were invoked
C40_Witness ==
  /\ pc = "done"
  /\ Len(trace) = 3
  /\ ResolutionRaised(1)
  /\ results[1].hasError /\ ~results[1].hasResult
  /\ trace[2].invoked /\ trace[3].invoked
  /\ results[3].hasResult

====
